---- MODULE Spec2Model ----
(***************************************************************************)
(* Model of bot_trello.py: the per-operator draft store (one JSON file per *)
(* draft under rascunhos_cartoes/<user_id>/), the commit pipeline that     *)
(* turns the stored drafts into Trello cards, and the per-operator         *)
(* conversational session kept in user_states.                             *)
(*                                                                         *)
(* Modelling decisions:                                                    *)
(*  - os.listdir returns the entries of a directory "in arbitrary order"   *)
(*    (Python documentation).  The order is a property of the directory:   *)
(*    it is kept in store[u].dir, a new entry takes any position in it and *)
(*    rewriting an existing file leaves it alone.                          *)
(*  - The Telegram transport (reply_text, edit_message_text, answer) is    *)
(*    reliable; the Trello calls may fail (raise) at every call.           *)
(*  - Files named in a draft's "anexos" exist when the commit runs         *)
(*    (os.path.exists is true): nothing in the program removes them.       *)
(*  - Spec is the conversation of the draft-authoring flows, with one      *)
(*    stored draft at most.  The menus of members and labels (they use     *)
(*    context.user_data and the store, not user_states) are in SpecSelecao *)
(*    and the guided edits of two stored drafts in SpecEdit, both starting *)
(*    from the preview of the collected drafts.  Of the buttons of the     *)
(*    result list of /buscar, which act on cards already on the board,     *)
(*    those that lead to the comment mode are in SpecBusca, which starts   *)
(*    after a search that found cards; the others are not modelled.        *)
(*    The branches of handle_text that compare the text with "/ok" are     *)
(*    unreachable: a text that starts with a command goes to a             *)
(*    CommandHandler.                                                      *)
(*  - SpecData applies parse_date_ddmmaa to texts, character by character; *)
(*    strftime("%Y") of a year below 1000 is filled with zeros or not,     *)
(*    depending on the C library.  SpecExtract applies                     *)
(*    extract_info_from_pdf to the lines of a first page.                  *)
(*  - SpecDuo has two operators; handlers run one update at a time.        *)
(*  - The display names kept in a draft's "membros" and "etiquetas" follow *)
(*    from the ids and are left out.                                       *)
(*  - The inline buttons of every message sent stay in the chat: the       *)
(*    operator may press any button sent so far (botoes).                  *)
(***************************************************************************)
EXTENDS Integers, Sequences, FiniteSets, TLC

\* ------------------------------------------------------------------ bounds
MaxDrafts == 3
MaxFailures == 2

\* ------------------------------------------------------------------ values
AllUsers == {"opA", "opB"}
Users == {"opA"}

None == "None"

NoDraft == [titulo |-> "", data_entrega |-> "N/A", checklists |-> <<>>,
            comentarios |-> "", membros_ids |-> <<>>, etiquetas_ids |-> <<>>,
            anexos |-> <<>>, editado |-> FALSE]

\* the seed draft returned by extract_info_from_pdf for a document whose
\* order number and client give the title t and whose "Retirada" date is dt
SeedDraft(t, dt) == [NoDraft EXCEPT !.titulo = t, !.data_entrega = dt]

\* drafts as the guided edits leave them (checklists with their items, one
\* comment, member and label ids, attachment paths)
DraftPool ==
  { SeedDraft("T1", "N/A"),
    [SeedDraft("T2", "25/12/2024") EXCEPT
        !.checklists = << [nome |-> "c1", itens |-> <<"a", "b">>],
                          [nome |-> "c2", itens |-> <<"c">>] >>,
        !.comentarios = "obs", !.membros_ids = <<"m1", "m2">>,
        !.etiquetas_ids = <<"e1">>, !.anexos = <<"f1">>, !.editado = TRUE],
    [SeedDraft("T3", "N/A") EXCEPT
        !.checklists = << [nome |-> "c1", itens |-> <<"a">>] >>,
        !.anexos = <<"f1">>, !.editado = TRUE] }

VARIABLES
  users,        \* usuarios.json: operator -> credential record, or None
  user_states,  \* the in-memory session of each operator
  store,        \* rascunhos_cartoes/<u>: [dir: listdir order, arq: contents]
  hist,         \* history: ap, the drafts appended since the last wipe, in call
                \* order; at, whether a draft was replaced since the last wipe;
                \* ed, the number of edits made through a mode since then;
                \* menus, the selection menus sent since then (field, draft)
  calls,        \* the Trello writes of the event processed last, in issue order
  report,       \* cartoes_criados / erros / operator messages of the last event
  botoes,       \* history: the callback data of the inline buttons sent so far
  ev,           \* history: the event processed last
  user_data     \* context.user_data of each operator: what the member and label
                \* menus keep between two button presses

vars == <<users, user_states, store, hist, calls, report, botoes, ev, user_data>>

\* ------------------------------------------------------------ sequences
RECURSIVE Concat(_)
Concat(ss) == IF ss = <<>> THEN <<>> ELSE Head(ss) \o Concat(Tail(ss))

InsertAt(s, p, x) == SubSeq(s, 1, p - 1) \o <<x>> \o SubSeq(s, p, Len(s))

Range(s) == {s[i] : i \in 1..Len(s)}

RECURSIVE Perms(_)
Perms(S) == IF S = {} THEN {<<>>}
            ELSE UNION {{<<x>> \o p : p \in Perms(S \ {x})} : x \in S}

RECURSIVE SeqsUpTo(_, _)
SeqsUpTo(S, n) == IF n = 0 THEN {<<>>}
                  ELSE LET P == SeqsUpTo(S, n - 1)
                       IN P \cup {Append(p, x) : p \in {q \in P : Len(q) = n - 1}, x \in S}

\* ------------------------------------------------------------ draft store
EmptyStore == [dir |-> <<>>, arq |-> <<>>]

\* the characters of "rascunho_<k>.json" after the common prefix, as code
\* points: the decimal digits of k, then '.'
RECURSIVE Digits(_)
Digits(k) == IF k < 10 THEN <<48 + k>> ELSE Digits(k \div 10) \o <<48 + (k % 10)>>

NomeArquivo(k) == Digits(k) \o <<46>>

\* str.__lt__: lexicographic order of the code points
RECURSIVE LexMenor(_, _)
LexMenor(a, b) ==
  IF a = <<>> THEN b # <<>>
  ELSE IF b = <<>> THEN FALSE
  ELSE IF Head(a) # Head(b) THEN Head(a) < Head(b)
  ELSE LexMenor(Tail(a), Tail(b))

\* list.sort() of the file names: the file numbers in lexicographic name order
RECURSIVE Ordenar(_)
Ordenar(S) ==
  IF S = {} THEN <<>>
  ELSE LET m == CHOOSE x \in S : \A y \in S \ {x} : LexMenor(NomeArquivo(x), NomeArquivo(y))
       IN <<m>> \o Ordenar(S \ {m})

\* salvar_rascunho: writes rascunho_<len(listdir)>.json; the new directory
\* entry is at position p of the listdir order
salvar_rascunho(s, d, p) ==
  LET n == Len(s.dir)
  IN [dir |-> InsertAt(s.dir, p, n),
      arq |-> [k \in 1..(n + 1) |-> IF k = n + 1 THEN d ELSE s.arq[k]]]

\* carregar_rascunhos: the file contents in listdir order
carregar_rascunhos(s) == [i \in 1..Len(s.dir) |-> s.arq[s.dir[i] + 1]]

\* atualizar_rascunho: "arquivos.sort()", then rewrites arquivos[index] when
\* 0 <= index < len(arquivos); atualizar_ok is the value it returns
arquivos_ordenados(s) == Ordenar(Range(s.dir))

atualizar_ok(s, index) == 0 <= index /\ index < Len(arquivos_ordenados(s))

atualizar_rascunho(s, index, d) ==
  IF atualizar_ok(s, index)
  THEN [s EXCEPT !.arq[arquivos_ordenados(s)[index + 1] + 1] = d]
  ELSE s

\* limpar_rascunhos: shutil.rmtree of the operator's directory
\* (variant: the directory is left as it is)
limpar_rascunhos_nada(s) == s

limpar_rascunhos(s) == EmptyStore

\* ---------------------------------------------------------- commit pipeline
\* one Trello call of a commit run: for the d-th loaded draft (titled nome),
\* of kind op, on the j-th element of its group (and k-th item of checklist
\* j); ok is whether the call returned or raised
Chamada(d, nome, op, j, k, ok) ==
  [d |-> d, nome |-> nome, op |-> op, j |-> j, k |-> k, ok |-> ok]

\* F is the set of calls that raise when they are issued
Falha(F, d, op, j, k) == <<d, op, j, k>> \in F

\* add_checkitem for the items k..n of checklist j: the first item that raises
\* leaves the try block of the checklist
RECURSIVE ItensLog(_, _, _, _, _, _)
ItensLog(F, d, nome, j, n, k) ==
  IF k > n THEN <<>>
  ELSE IF Falha(F, d, "checkitem", j, k)
       THEN << Chamada(d, nome, "checkitem", j, k, FALSE) >>
       ELSE << Chamada(d, nome, "checkitem", j, k, TRUE) >>
            \o ItensLog(F, d, nome, j, n, k + 1)

\* "for checklist_data in rascunho.get('checklists', [])": create_checklist,
\* then its items, inside one try per checklist
ChecklistLog(F, d, r, j) ==
  IF Falha(F, d, "checklist", j, 0)
  THEN << Chamada(d, r.titulo, "checklist", j, 0, FALSE) >>
  ELSE << Chamada(d, r.titulo, "checklist", j, 0, TRUE) >>
       \o ItensLog(F, d, r.titulo, j, Len(r.checklists[j].itens), 1)

ChecklistsLog(F, d, r) ==
  Concat([j \in 1..Len(r.checklists) |-> ChecklistLog(F, d, r, j)])

\* "if rascunho.get('comentarios')": one add_comment in its own try
ComentarioLog(F, d, r) ==
  IF r.comentarios # ""
  THEN << Chamada(d, r.titulo, "comentario", 1, 0, ~Falha(F, d, "comentario", 1, 0)) >>
  ELSE <<>>

\* the member, label and attachment loops: one call per element, each in its
\* own try
GrupoLog(F, d, r, op, n) ==
  [j \in 1..n |-> Chamada(d, r.titulo, op, j, 0, ~Falha(F, d, op, j, 0))]

\* two variants the properties must tell from the code: the comment issued
\* after the members; no try around the secondary calls, so that the first one
\* that raises ends the draft
SecundariasLogTrocada(F, d, r) ==
  ChecklistsLog(F, d, r)
  \o GrupoLog(F, d, r, "membro", Len(r.membros_ids))
  \o ComentarioLog(F, d, r)
  \o GrupoLog(F, d, r, "etiqueta", Len(r.etiquetas_ids))
  \o GrupoLog(F, d, r, "anexo", Len(r.anexos))

RECURSIVE AteFalha(_)
AteFalha(log) ==
  IF log = <<>> THEN <<>>
  ELSE IF ~Head(log).ok THEN << Head(log) >> ELSE << Head(log) >> \o AteFalha(Tail(log))

SecundariasLogSemTry(F, d, r) ==
  AteFalha(ChecklistsLog(F, d, r)
           \o ComentarioLog(F, d, r)
           \o GrupoLog(F, d, r, "membro", Len(r.membros_ids))
           \o GrupoLog(F, d, r, "etiqueta", Len(r.etiquetas_ids))
           \o GrupoLog(F, d, r, "anexo", Len(r.anexos)))

SecundariasLog(F, d, r) ==
  ChecklistsLog(F, d, r)
  \o ComentarioLog(F, d, r)
  \o GrupoLog(F, d, r, "membro", Len(r.membros_ids))
  \o GrupoLog(F, d, r, "etiqueta", Len(r.etiquetas_ids))
  \o GrupoLog(F, d, r, "anexo", Len(r.anexos))

\* the body of "for i, rascunho in enumerate(rascunhos, 1)": POST /cards, and
\* the secondary calls only when it returned
\* (variant: the secondary calls are issued whatever POST /cards did)
RascunhoLogSemAbortar(F, d, r) ==
  << Chamada(d, r.titulo, "card", 0, 0, ~Falha(F, d, "card", 0, 0)) >> \o SecundariasLog(F, d, r)

\* (variant: a POST /cards that raised is sent a second time)
RascunhoLogRepete(F, d, r) ==
  IF Falha(F, d, "card", 0, 0)
  THEN << Chamada(d, r.titulo, "card", 0, 0, FALSE), Chamada(d, r.titulo, "card", 0, 0, TRUE) >>
       \o SecundariasLog(F, d, r)
  ELSE << Chamada(d, r.titulo, "card", 0, 0, TRUE) >> \o SecundariasLog(F, d, r)

RascunhoLog(F, d, r) ==
  IF Falha(F, d, "card", 0, 0)
  THEN << Chamada(d, r.titulo, "card", 0, 0, FALSE) >>
  ELSE << Chamada(d, r.titulo, "card", 0, 0, TRUE) >> \o SecundariasLog(F, d, r)

RunLog(F, rs) == Concat([d \in 1..Len(rs) |-> RascunhoLog(F, d, rs[d])])

\* cartoes_criados and erros after the loop
Criados(F, rs) ==
  Concat([d \in 1..Len(rs) |->
            IF Falha(F, d, "card", 0, 0) THEN <<>> ELSE << [i |-> d, nome |-> rs[d].titulo] >>])

\* (variant: a failed secondary call of a created card is listed as well)
ErrosComSecundarias(F, rs) ==
  Concat([d \in 1..Len(rs) |->
            IF \E f \in F : f[1] = d
            THEN << [i |-> d, nome |-> rs[d].titulo, motivo |-> "card"] >> ELSE <<>>])

Erros(F, rs) ==
  Concat([d \in 1..Len(rs) |->
            IF Falha(F, d, "card", 0, 0)
            THEN << [i |-> d, nome |-> rs[d].titulo, motivo |-> "card"] >> ELSE <<>>])

\* every call the run would issue if none raised
Slots(rs) == { <<c.d, c.op, c.j, c.k>> : c \in Range(RunLog({}, rs)) }

RECURSIVE SubsetsUpTo(_, _)
SubsetsUpTo(S, n) ==
  IF n = 0 THEN {{}}
  ELSE LET P == SubsetsUpTo(S, n - 1) IN P \cup {p \cup {x} : p \in P, x \in S}

\* the outcomes of a run: which of its calls raise, n at most
FailSets(rs, n) == SubsetsUpTo(Slots(rs), n)

\* ------------------------------------------------------------------ session
\* an index_cartao that is absent or None
NoIndex == -1

NoBuffer == [tipo |-> "none", api_key |-> None, token |-> None]

\* user_states.get(user_id, {}) of an operator with no entry, and {"mode": None}
IdleState ==
  [flow |-> None, buffer |-> NoBuffer, mode |-> None, checklist_stage |-> None,
   checklist_name |-> None, index_cartao |-> NoIndex, anexos |-> <<>>,
   selected_card |-> None, cartoes_encontrados |-> 0,
   index_cartao_existente |-> NoIndex]

NoCred == [api_key |-> None, token |-> None, board_id |-> None]
Cred0 == [api_key |-> "k", token |-> "t", board_id |-> "b"]

NoHist == [ap |-> <<>>, at |-> FALSE, ed |-> 0, menus |-> {}]

NoReport == [criados |-> <<>>, erros |-> <<>>, msgs |-> <<>>]

\* context.user_data before any menu was opened
NoUserData == [membros_disponiveis |-> <<>>, etiquetas_disponiveis |-> <<>>,
               index_cartao_editando |-> NoIndex]

\* the record of the event processed last
Ev(op, u) == [op |-> op, u |-> u, i |-> NoIndex, ok |-> TRUE, fase |-> None,
              dado |-> NoDraft, antes |-> <<>>, texto |-> None, pend |-> <<>>]

\* ------------------------------------------------- the store's operations
\* os.path.join(RASCUNHOS_DIR, str(user_id)): the directory of an operator
\* (variant: one directory for all)
user_dir_comum(u) == "opA"

user_dir(u) == u

ChamaSalvar(u) ==
  \E d \in DraftPool, p \in 1..(Len(store[user_dir(u)].dir) + 1) :
    /\ Len(store[user_dir(u)].dir) < MaxDrafts
    /\ store' = [store EXCEPT ![user_dir(u)] = salvar_rascunho(@, d, p)]
    /\ hist' = [hist EXCEPT ![u].ap = Append(@, d)]
    /\ ev' = [Ev("salvar", u) EXCEPT !.dado = d, !.antes = carregar_rascunhos(store[user_dir(u)])]
    /\ UNCHANGED <<user_data, users, user_states, calls, report, botoes>>

ChamaAtualizar(u) ==
  \E i \in -1..MaxDrafts, d \in DraftPool :
    /\ store' = [store EXCEPT ![user_dir(u)] = atualizar_rascunho(@, i, d)]
    /\ hist' = [hist EXCEPT ![u].at = @ \/ atualizar_ok(store[user_dir(u)], i)]
    /\ ev' = [Ev("atualizar", u) EXCEPT !.i = i, !.dado = d, !.ok = atualizar_ok(store[user_dir(u)], i),
                                        !.antes = carregar_rascunhos(store[user_dir(u)])]
    /\ UNCHANGED <<user_data, users, user_states, calls, report, botoes>>

ChamaLimpar(u) ==
  /\ store' = [store EXCEPT ![user_dir(u)] = limpar_rascunhos(@)]
  /\ hist' = [hist EXCEPT ![u] = NoHist]
  /\ ev' = [Ev("limpar", u) EXCEPT !.antes = carregar_rascunhos(store[user_dir(u)])]
  /\ UNCHANGED <<user_data, users, user_states, calls, report, botoes>>

InitStore ==
  /\ users = [u \in AllUsers |-> NoCred]
  /\ user_states = [u \in AllUsers |-> IdleState]
  /\ store = [u \in AllUsers |-> EmptyStore]
  /\ hist = [u \in AllUsers |-> NoHist]
  /\ calls = <<>>
  /\ report = NoReport
  /\ botoes = [u \in AllUsers |-> {}]
  /\ user_data = [u \in AllUsers |-> NoUserData]
  /\ ev = Ev("init", "opA")

NextStore == \E u \in Users : ChamaSalvar(u) \/ ChamaAtualizar(u) \/ ChamaLimpar(u)

SpecStore == InitStore /\ [][NextStore]_vars

\* ------------------------------------------------------------- commit run
Msg(tipo, i) == [tipo |-> tipo, i |-> i]

\* the reply_text inside the loop of criar_cartoes_cmd: one message per draft
MsgsPorRascunho(F, rs) ==
  [d \in 1..Len(rs) |-> IF Falha(F, d, "card", 0, 0) THEN Msg("erro_cartao", d)
                                                    ELSE Msg("cartao_criado", d)]

\* the store after a run that stops before the loop ("return" when the list
\* is not found, the outer "except"): limpar_rascunhos is not reached
\* (variant: it is)
AposAbortarLimpa(s) == limpar_rascunhos(s)

AposAbortar(s) == s

\* the store after the loop: both versions call limpar_rascunhos
\* (variant: only the command does)
AposProcessarSoComando(porCallback, s) ==
  IF porCallback THEN s ELSE limpar_rascunhos(s)

AposProcessar(porCallback, s) == limpar_rascunhos(s)

\* the body shared by criar_cartoes_cmd and criar_cartoes_cmd_from_callback;
\* the callback version sends no message inside the loop
CommitRun(u, op, porCallback, n) ==
  LET rs == carregar_rascunhos(store[u])
  IN \/ /\ users[u] = NoCred
        /\ ev' = [Ev(op, u) EXCEPT !.fase = "sem_credenciais", !.antes = rs]
        /\ report' = [NoReport EXCEPT !.msgs = << Msg("configure", 0) >>]
        /\ calls' = <<>>
        /\ UNCHANGED <<user_data, users, user_states, store, hist, botoes>>
     \/ /\ users[u] # NoCred
        /\ rs = <<>>
        /\ ev' = [Ev(op, u) EXCEPT !.fase = "nenhum", !.antes = rs]
        /\ report' = [NoReport EXCEPT !.msgs = << Msg("nenhum_cartao", 0) >>]
        /\ calls' = <<>>
        /\ UNCHANGED <<user_data, users, user_states, store, hist, botoes>>
     \/ \* get_board_lists raises: the outer except
        /\ users[u] # NoCred
        /\ rs # <<>>
        /\ ev' = [Ev(op, u) EXCEPT !.fase = "erro_listas", !.ok = FALSE, !.antes = rs]
        /\ report' = [NoReport EXCEPT !.msgs = << Msg("erro_geral", 0) >>]
        /\ calls' = <<>>
        /\ store' = [store EXCEPT ![u] = AposAbortar(@)]
        /\ UNCHANGED <<user_data, users, user_states, hist, botoes>>
     \/ \* no list of the board is named "PEDIDOS SEM ARTE": return
        /\ users[u] # NoCred
        /\ rs # <<>>
        /\ ev' = [Ev(op, u) EXCEPT !.fase = "lista_ausente", !.antes = rs]
        /\ report' = [NoReport EXCEPT !.msgs = << Msg("lista_nao_encontrada", 0) >>]
        /\ calls' = <<>>
        /\ store' = [store EXCEPT ![u] = AposAbortar(@)]
        /\ UNCHANGED <<user_data, users, user_states, hist, botoes>>
     \/ \* the loop over the drafts, limpar_rascunhos, the summary
        /\ users[u] # NoCred
        /\ rs # <<>>
        /\ \E F \in FailSets(rs, n) :
             /\ calls' = RunLog(F, rs)
             /\ report' = [criados |-> Criados(F, rs), erros |-> Erros(F, rs),
                           msgs |-> (IF porCallback THEN <<>> ELSE MsgsPorRascunho(F, rs))
                                     \o << Msg("resumo", Len(Erros(F, rs))) >>]
        /\ store' = [store EXCEPT ![u] = AposProcessar(porCallback, @)]
        /\ hist' = [hist EXCEPT ![u] = NoHist]
        /\ ev' = [Ev(op, u) EXCEPT !.fase = "processou", !.antes = rs]
        /\ UNCHANGED <<user_data, users, user_states, botoes>>

criar_cartoes_cmd(u, n) == CommitRun(u, "criar", FALSE, n)

\* handle_callback_query with data == "criar_todos_cartoes"
criar_cartoes_cmd_from_callback(u, n) == CommitRun(u, "criar_callback", TRUE, n)

\* states in which a commit is triggered: a configured operator with any
\* stored drafts in any listdir order, or an operator without credentials
InitCommit ==
  /\ \E c \in {NoCred, Cred0} :
       users = [u \in AllUsers |-> IF u \in Users THEN c ELSE NoCred]
  /\ user_states = [u \in AllUsers |-> IdleState]
  /\ \E arq \in SeqsUpTo(DraftPool, MaxDrafts) :
       \E dir \in Perms(0..(Len(arq) - 1)) :
          /\ store = [u \in AllUsers |-> IF u \in Users THEN [dir |-> dir, arq |-> arq]
                                                      ELSE EmptyStore]
          /\ hist = [u \in AllUsers |-> IF u \in Users THEN [NoHist EXCEPT !.ap = arq]
                                                     ELSE NoHist]
  /\ \A u \in Users : users[u] = NoCred => store[u] = EmptyStore
  /\ calls = <<>>
  /\ report = NoReport
  /\ botoes = [u \in AllUsers |-> {}]
  /\ user_data = [u \in AllUsers |-> NoUserData]
  /\ ev = Ev("init", "opA")

NextCommit ==
  \E u \in Users :
    criar_cartoes_cmd(u, MaxFailures) \/ criar_cartoes_cmd_from_callback(u, MaxFailures)

SpecCommit == InitCommit /\ [][NextCommit]_vars

\* ------------------------------------------------- conversation: the inputs
MaxPdfs == 1
MaxAnexos == 1
MaxEdits == 1
MaxFalhas == 1

\* the text messages an operator sends (never empty, never a command: the
\* text handler is registered with filters.TEXT & ~filters.COMMAND)
Texts == {"k", "25/12/2024", "31/02/2024", "a--b", "--"}

\* the texts tried at each kind of prompt: a plain word where any text is
\* taken as it is, the two dates at the date prompt, the two item lists at
\* the items prompt
Palavras == {"k"}
Datas == {"25/12/2024", "31/02/2024"}
Listas == {"a--b", "--"}

Bissexto(y) == (y % 4 = 0 /\ y % 100 # 0) \/ y % 400 = 0

DiasNoMes(m, y) ==
  IF m = 2 THEN (IF Bissexto(y) THEN 29 ELSE 28)
  ELSE IF m \in {4, 6, 9, 11} THEN 30 ELSE 31

NoDate == <<>>

\* the characters of the texts of the model
Caracteres(t) ==
  CASE t = "a--b" -> <<"a", "-", "-", "b">>
    [] t = "--" -> <<"-", "-">>
    [] t = "25/12/2024" -> <<"2", "5", "/", "1", "2", "/", "2", "0", "2", "4">>
    [] t = "31/02/2024" -> <<"3", "1", "/", "0", "2", "/", "2", "0", "2", "4">>
    [] t = "k" -> <<"k">>

\* str.strip(): the text without the white space at its two ends
\* (variant: the text as it is)
strip_nada(cs) == cs

RECURSIVE lstrip(_)
lstrip(cs) == IF cs # <<>> /\ Head(cs) = " " THEN lstrip(Tail(cs)) ELSE cs

RECURSIVE rstrip(_)
rstrip(cs) ==
  IF cs # <<>> /\ cs[Len(cs)] = " " THEN rstrip(SubSeq(cs, 1, Len(cs) - 1)) ELSE cs

strip(cs) == rstrip(lstrip(cs))

\* ------------------------------------------------------- parse_date_ddmmaa
Algarismos == <<"0", "1", "2", "3", "4", "5", "6", "7", "8", "9">>

EhAlgarismo(c) == c \in Range(Algarismos)

\* int() of a digit and of a run of digits
ValorAlgarismo(c) == CHOOSE n \in 0..9 : Algarismos[n + 1] = c

RECURSIVE Valor(_)
Valor(cs) ==
  IF cs = <<>> THEN 0
  ELSE 10 * Valor(SubSeq(cs, 1, Len(cs) - 1)) + ValorAlgarismo(cs[Len(cs)])

\* s.replace("-", "/")
replace(cs) == [k \in DOMAIN cs |-> IF cs[k] = "-" THEN "/" ELSE cs[k]]

\* the parts of a text between its "/"
RECURSIVE partes_from(_, _)
partes_from(cs, seg) ==
  IF cs = <<>> THEN << seg >>
  ELSE IF Head(cs) = "/" THEN << seg >> \o partes_from(Tail(cs), <<>>)
       ELSE partes_from(Tail(cs), Append(seg, Head(cs)))

partes(cs) == partes_from(cs, <<>>)

\* the directives of _strptime: %d is (3[0-1]|[1-2]\d|0[1-9]|[1-9]| [1-9]),
\* %m is (1[0-2]|0[1-9]|[1-9]), %Y is \d\d\d\d
DiretivaY(p) == Len(p) = 4 /\ \A k \in DOMAIN p : EhAlgarismo(p[k])

Diretiva_d(p) ==
  \/ Len(p) = 2 /\ p[1] = "3" /\ p[2] \in {"0", "1"}
  \/ Len(p) = 2 /\ p[1] \in {"1", "2"} /\ EhAlgarismo(p[2])
  \/ Len(p) = 2 /\ p[1] \in {"0", " "} /\ EhAlgarismo(p[2]) /\ p[2] # "0"
  \/ Len(p) = 1 /\ EhAlgarismo(p[1]) /\ p[1] # "0"

Diretiva_m(p) ==
  \/ Len(p) = 2 /\ p[1] = "1" /\ p[2] \in {"0", "1", "2"}
  \/ Len(p) = 2 /\ p[1] = "0" /\ EhAlgarismo(p[2]) /\ p[2] # "0"
  \/ Len(p) = 1 /\ EhAlgarismo(p[1]) /\ p[1] # "0"

\* datetime.strptime(s2, "%d/%m/%Y"): <<day, month, year>>, or <<>> when it
\* raises ValueError (no match, text left over, year 0, day out of the month)
strptime(cs) ==
  LET ps == partes(cs)
  IN IF Len(ps) = 3 /\ Diretiva_d(ps[1]) /\ Diretiva_m(ps[2]) /\ DiretivaY(ps[3])
     THEN LET d == Valor(SelectSeq(ps[1], EhAlgarismo))
              m == Valor(ps[2])
              y == Valor(ps[3])
          IN IF y >= 1 /\ d <= DiasNoMes(m, y) THEN <<d, m, y>> ELSE <<>>
     ELSE <<>>

\* the decimal digits of n, and the same filled with zeros to w characters
RECURSIVE Decimal(_)
Decimal(n) ==
  IF n < 10 THEN << Algarismos[n + 1] >>
  ELSE Decimal(n \div 10) \o << Algarismos[(n % 10) + 1] >>

RECURSIVE Preenchido(_, _)
Preenchido(cs, w) == IF Len(cs) >= w THEN cs ELSE Preenchido(<<"0">> \o cs, w)

\* d.strftime("%Y-%m-%dT16:00:00.000Z"): %m and %d have two digits; %Y is
\* left to the C library, which fills the year to four digits or, as glibc
\* does, writes it as it is (preenche tells which)
strftime(c, preenche) ==
  (IF preenche THEN Preenchido(Decimal(c[3]), 4) ELSE Decimal(c[3]))
  \o <<"-">> \o Preenchido(Decimal(c[2]), 2)
  \o <<"-">> \o Preenchido(Decimal(c[1]), 2)
  \o <<"T", "1", "6", ":", "0", "0", ":", "0", "0", ".", "0", "0", "0", "Z">>

\* parse_date_ddmmaa: the ISO text, or None (here NoDate) when strptime raises
parse_date_ddmmaa(cs, preenche) ==
  LET c == strptime(strip(replace(cs)))
  IN IF c = <<>> THEN NoDate ELSE strftime(c, preenche)

\* str.split('--'): the text is read from the left, every "--" met closes
\* the current segment
RECURSIVE split_from(_, _)
split_from(cs, seg) ==
  IF cs = <<>> THEN << seg >>
  ELSE IF Len(cs) >= 2 /\ cs[1] = "-" /\ cs[2] = "-"
       THEN << seg >> \o split_from(SubSeq(cs, 3, Len(cs)), <<>>)
       ELSE split_from(Tail(cs), Append(seg, Head(cs)))

split(cs) == split_from(cs, <<>>)

\* (variant: the empty segments are kept)
items_sem_filtro(cs) == [k \in DOMAIN split(cs) |-> strip(split(cs)[k])]

\* "[item.strip() for item in text.split('--') if item.strip()]"
items(cs) ==
  SelectSeq([k \in DOMAIN split(cs) |-> strip(split(cs)[k])], LAMBDA x : x # <<>>)

Segmentos(t) == split(Caracteres(t))

Itens(t) == items(Caracteres(t))

\* the documents an operator sends: an order PDF, a PDF from which nothing
\* can be extracted, a file that is not a PDF
Docs ==
  { [nome |-> "p1", pdf |-> TRUE, legivel |-> TRUE],
    [nome |-> "p2", pdf |-> TRUE, legivel |-> FALSE],
    [nome |-> "f1", pdf |-> FALSE, legivel |-> FALSE] }

\* extract_info_from_pdf: the seed draft, or None (here NoDraft)
\* (variant: a seed draft whatever the document)
extract_sempre(doc) == SeedDraft("T1", "N/A")

extract_info_from_pdf(doc) ==
  IF doc.legivel THEN SeedDraft("T1", "N/A") ELSE NoDraft

\* ------------------------------------------------ conversation: the buttons
Botao(d, i) == [d |-> d, i |-> i]

\* the keyboard of ok_cmd and ok_cmd_from_callback for n drafts
BotoesPrevia(n) ==
  {Botao("editar_cartao", i) : i \in 0..(n - 1)}
  \cup {Botao("atualizar_previa", NoIndex), Botao("criar_todos_cartoes", NoIndex)}

\* "rascunhos and 0 <= index_cartao < len(rascunhos)"
TemRascunho(s, i) == 0 <= i /\ i < Len(carregar_rascunhos(s))

\* mostrar_opcoes_edicao: the keyboard of the edit menu of draft i, nothing
\* when the draft does not exist
mostrar_opcoes_edicao(s, i) ==
  IF carregar_rascunhos(s) = <<>> \/ i >= Len(carregar_rascunhos(s)) THEN {}
  ELSE {Botao(d, i) : d \in {"editar_data", "add_comentario", "add_checklist",
                              "add_membro", "add_etiqueta", "add_anexo",
                              "excluir_cartao"}}
       \cup {Botao("voltar_previa", NoIndex)}

ListBuffer == [tipo |-> "list", api_key |-> None, token |-> None]

DictBuffer == [tipo |-> "dict", api_key |-> None, token |-> None]

\* a guided edit of draft i: the draft carregar_rascunhos returns at index i,
\* changed by the edit, is handed to atualizar_rascunho with the same index
\* (variant: rascunho["editado"] is not set)
EditadoSemMarca(s, i, r) == atualizar_rascunho(s, i, r)

Editado(s, i, r) == atualizar_rascunho(s, i, [r EXCEPT !.editado = TRUE])

\* a handler other than the commit run issues no Trello write and leaves no
\* commit report
SemChamadas == calls' = <<>> /\ report' = NoReport

\* the effect shared by the handlers that only send a message
SoMensagem(u, op, fase) ==
  /\ ev' = [Ev(op, u) EXCEPT !.fase = fase]
  /\ SemChamadas /\ UNCHANGED <<user_data, users, user_states, store, hist, botoes>>

\* ----------------------------------------------- conversation: the commands
start_cmd(u) ==
  \/ /\ users[u] # NoCred
     /\ SoMensagem(u, "start", "ja_configurado")
  \/ /\ users[u] = NoCred
     /\ user_states' = [user_states EXCEPT ![u] =
                          [IdleState EXCEPT !.flow = "register_api_key", !.buffer = DictBuffer]]
     /\ ev' = Ev("start", u)
     /\ SemChamadas /\ UNCHANGED <<user_data, users, store, hist, botoes>>

config_cmd(u) ==
  /\ user_states' = [user_states EXCEPT ![u] =
                       [IdleState EXCEPT !.flow = "register_api_key", !.buffer = DictBuffer]]
  /\ ev' = Ev("config", u)
  /\ SemChamadas /\ UNCHANGED <<user_data, users, store, hist, botoes>>

\* the session cancelar_cmd leaves: {"mode": None} when a mode was active
\* (variant: whatever the session)
AposCancelarSempre(st) == IdleState

AposCancelar(st) == IF st.mode # None THEN IdleState ELSE st

cancelar_cmd(u) ==
  /\ user_states' = [user_states EXCEPT ![u] = AposCancelar(@)]
  /\ ev' = [Ev("cancelar", u) EXCEPT
              !.fase = (IF user_states[u].mode # None THEN "cancelada" ELSE "nenhuma_ativa"),
              !.texto = user_states[u].mode, !.pend = user_states[u].anexos]
  /\ SemChamadas /\ UNCHANGED <<user_data, users, store, hist, botoes>>

fim_cmd(u) ==
  \/ /\ user_states[u].mode = None
     /\ SoMensagem(u, "fim", "nenhum_modo")
  \/ /\ user_states[u].mode # None
     /\ user_states' = [user_states EXCEPT ![u].mode = None, ![u].buffer = ListBuffer]
     /\ ev' = Ev("fim", u)
     /\ SemChamadas /\ UNCHANGED <<user_data, users, store, hist, botoes>>

pdf_cmd(u) ==
  \/ /\ users[u] = NoCred
     /\ SoMensagem(u, "pedido", "sem_credenciais")
  \/ /\ users[u] # NoCred
     /\ store' = [store EXCEPT ![user_dir(u)] = limpar_rascunhos(@)]
     /\ hist' = [hist EXCEPT ![u] = NoHist]
     /\ user_states' = [user_states EXCEPT ![u].mode = "coletando_pdfs"]
     /\ ev' = [Ev("pedido", u) EXCEPT !.antes = carregar_rascunhos(store[u])]
     /\ SemChamadas /\ UNCHANGED <<user_data, users, botoes>>

\* buscar_cmd: the search itself reads the board; a search that finds cards
\* replaces the session by {"mode": "busca_cartoes", ...}
\* the cards a search finds (cartoes_encontrados holds their number)
MaxCartoes == 1

\* the keyboard of mostrar_resultados_busca for n cards found
mostrar_resultados_busca(n) ==
  {Botao("editar_cartao_busca", i) : i \in 0..(n - 1)} \cup {Botao("nova_busca", NoIndex)}

buscar_cmd(u) ==
  \/ /\ users[u] = NoCred
     /\ SoMensagem(u, "buscar", "sem_credenciais")
  \/ \* no term, get_board_cards or get_board_lists raises, no card matches
     /\ users[u] # NoCred
     /\ \E f \in {"uso", "erro_busca", "nenhum_encontrado"} : SoMensagem(u, "buscar", f)
  \/ \* n cards match: the state is replaced and the results are shown (the
     \* keyboard of the results is followed in the search flow below)
     /\ users[u] # NoCred
     /\ \E n \in 1..MaxCartoes :
          /\ user_states' = [user_states EXCEPT ![u] =
                 [IdleState EXCEPT !.mode = "busca_cartoes", !.cartoes_encontrados = n]]
     /\ ev' = [Ev("buscar", u) EXCEPT !.fase = "resultados"]
     /\ SemChamadas /\ UNCHANGED <<user_data, users, store, hist, botoes>>

\* addchk_cmd: the guided flow starts only when state.get("selected_card")
\* is set
addchk_cmd(u) ==
  \/ /\ users[u] = NoCred
     /\ SoMensagem(u, "addchk", "sem_credenciais")
  \/ /\ users[u] # NoCred
     /\ IF user_states[u].selected_card = None
        THEN SoMensagem(u, "addchk", "nenhum_cartao_selecionado")
        ELSE /\ user_states' = [user_states EXCEPT ![u] =
                                  [@ EXCEPT !.mode = "add_checklist",
                                            !.checklist_stage = "aguardando_nome"]]
             /\ ev' = [Ev("addchk", u) EXCEPT !.fase = "aguardando_nome"]
             /\ SemChamadas /\ UNCHANGED <<user_data, users, store, hist, botoes>>

ok_cmd(u) ==
  \/ /\ carregar_rascunhos(store[u]) = <<>>
     /\ SoMensagem(u, "ok", "nenhum_pdf")
  \/ /\ carregar_rascunhos(store[u]) # <<>>
     /\ botoes' = [botoes EXCEPT ![u] = @ \cup BotoesPrevia(Len(carregar_rascunhos(store[u])))]
     /\ ev' = [Ev("ok", u) EXCEPT !.fase = "previa"]
     /\ SemChamadas /\ UNCHANGED <<user_data, users, user_states, store, hist>>

\* "if parse_date_ddmmaa(nova_data)" of the date edit
\* (variant: the text is taken without the test)
DataAceitaSempre(text) == TRUE

DataAceita(text) == parse_date_ddmmaa(Caracteres(text), TRUE) # NoDate

\* the record the last stage of the credential flow hands to save_users:
\* buf.get("api_key"), buf.get("token") and the text just received
\* (variant: the token of the buffer is not copied)
RegistroSemToken(buf, text) == [api_key |-> buf.api_key, token |-> None, board_id |-> text]

RegistroSalvo(buf, text) == [api_key |-> buf.api_key, token |-> buf.token, board_id |-> text]

\* ------------------------------------------ conversation: the text handler
\* the session after a guided edit was applied or abandoned
AposChecklist(st, achou) ==
  [st EXCEPT !.mode = None, !.checklist_stage = None, !.checklist_name = None,
             !.index_cartao = IF achou THEN NoIndex ELSE @]

\* handle_checklist_creation in the mode add_checklist_pdf, for a text that
\* is not empty; itens are the items derived from it
handle_checklist_creation(u, text, itens, E0) ==
  LET st == user_states[u]
      s == store[u]
      i == st.index_cartao
      rs == carregar_rascunhos(s)
      achou == TemRascunho(s, i)
  IN \/ \* stage aguardando_nome
        /\ st.checklist_stage = "aguardando_nome"
        /\ user_states' = [user_states EXCEPT ![u].checklist_name = text,
                                              ![u].checklist_stage = "aguardando_itens"]
        /\ ev' = [E0 EXCEPT !.fase = "nome_checklist"]
        /\ SemChamadas /\ UNCHANGED <<user_data, users, store, hist, botoes>>
     \/ \* stage aguardando_itens, no valid item
        /\ st.checklist_stage = "aguardando_itens"
        /\ itens = <<>>
        /\ ev' = [E0 EXCEPT !.fase = "sem_itens", !.ok = FALSE]
        /\ SemChamadas /\ UNCHANGED <<user_data, users, user_states, store, hist, botoes>>
     \/ \* stage aguardando_itens
        /\ st.checklist_stage = "aguardando_itens"
        /\ itens # <<>>
        /\ achou => hist[u].ed < MaxEdits
        /\ store' = [store EXCEPT ![u] =
              IF achou
              THEN Editado(s, i, [rs[i + 1] EXCEPT !.checklists =
                      Append(@, [nome |-> st.checklist_name, itens |-> itens])])
              ELSE @]
        /\ hist' = [hist EXCEPT ![u].at = @ \/ achou,
                                ![u].ed = IF achou THEN @ + 1 ELSE @]
        /\ user_states' = [user_states EXCEPT ![u] = AposChecklist(st, achou)]
        /\ botoes' = [botoes EXCEPT ![u] =
              IF achou THEN @ \cup mostrar_opcoes_edicao(store'[u], i) ELSE @]
        /\ ev' = [E0 EXCEPT !.fase = "itens_checklist", !.ok = achou]
        /\ SemChamadas /\ UNCHANGED <<user_data, users>>

\* the stages of the credential flow, tested before anything else
handle_text_registro(u) ==
  \E text \in Texts :
    LET st == user_states[u]
        E0 == [Ev("texto", u) EXCEPT !.i = st.index_cartao, !.texto = text]
    IN \/ \* a credential stage whose buffer was replaced by a list:
          \* st["buffer"]["api_key"] = text raises TypeError
          /\ st.flow # None /\ st.buffer.tipo # "dict"
          /\ text \in Palavras
          /\ ev' = [E0 EXCEPT !.fase = "excecao", !.ok = FALSE]
          /\ SemChamadas /\ UNCHANGED <<user_data, users, user_states, store, hist, botoes>>
       \/ /\ st.flow = "register_api_key" /\ st.buffer.tipo = "dict"
          /\ text \in Palavras
          /\ user_states' = [user_states EXCEPT ![u].buffer.api_key = text,
                                                ![u].flow = "register_token"]
          /\ ev' = [E0 EXCEPT !.fase = "api_key"]
          /\ SemChamadas /\ UNCHANGED <<user_data, users, store, hist, botoes>>
       \/ /\ st.flow = "register_token" /\ st.buffer.tipo = "dict"
          /\ text \in Palavras
          /\ user_states' = [user_states EXCEPT ![u].buffer.token = text,
                                                ![u].flow = "register_board"]
          /\ ev' = [E0 EXCEPT !.fase = "token"]
          /\ SemChamadas /\ UNCHANGED <<user_data, users, store, hist, botoes>>
       \/ /\ st.flow = "register_board" /\ st.buffer.tipo = "dict"
          /\ text \in Palavras
          /\ users' = [users EXCEPT ![u] = RegistroSalvo(st.buffer, text)]
          /\ user_states' = [user_states EXCEPT ![u] = IdleState]
          /\ ev' = [E0 EXCEPT !.fase = "board"]
          /\ SemChamadas /\ UNCHANGED <<user_data, store, hist, botoes>>

\* a text outside the credential flow: the guided edit of the mode, or the
\* fallback message
handle_text_modo(u) ==
  \E text \in Texts :
    LET st == user_states[u]
        s == store[u]
        i == st.index_cartao
        rs == carregar_rascunhos(s)
        achou == TemRascunho(s, i)
        E0 == [Ev("texto", u) EXCEPT !.i = i, !.texto = text]
    IN \/ /\ st.flow = None /\ st.mode = "add_checklist_pdf"
          /\ text \in (IF st.checklist_stage = "aguardando_nome" THEN Palavras ELSE Listas)
          /\ handle_checklist_creation(u, text, Itens(text), E0)
       \/ \* editando_data_cartao
          /\ st.flow = None /\ st.mode = "editando_data_cartao"
          /\ text \in Datas
          /\ LET valida == DataAceita(text)
             IN /\ (valida /\ achou) => hist[u].ed < MaxEdits
                /\ store' = [store EXCEPT ![u] =
                      IF valida /\ achou
                      THEN Editado(s, i, [rs[i + 1] EXCEPT !.data_entrega = text])
                      ELSE @]
                /\ hist' = [hist EXCEPT ![u].at = @ \/ (valida /\ achou),
                                        ![u].ed = IF valida /\ achou THEN @ + 1 ELSE @]
                /\ botoes' = [botoes EXCEPT ![u] =
                      IF valida /\ achou THEN @ \cup mostrar_opcoes_edicao(store'[u], i) ELSE @]
                /\ ev' = [E0 EXCEPT !.fase = (IF valida THEN "data" ELSE "data_invalida"),
                                    !.ok = valida /\ achou]
          /\ user_states' = [user_states EXCEPT ![u].mode = None, ![u].buffer = ListBuffer]
          /\ SemChamadas /\ UNCHANGED <<user_data, users>>
       \/ \* adicionando_comentario_cartao
          /\ st.flow = None /\ st.mode = "adicionando_comentario_cartao"
          /\ text \in Palavras
          /\ achou => hist[u].ed < MaxEdits
          /\ store' = [store EXCEPT ![u] =
                IF achou THEN Editado(s, i, [rs[i + 1] EXCEPT !.comentarios = text]) ELSE @]
          /\ hist' = [hist EXCEPT ![u].at = @ \/ achou,
                                  ![u].ed = IF achou THEN @ + 1 ELSE @]
          /\ botoes' = [botoes EXCEPT ![u] =
                IF achou THEN @ \cup mostrar_opcoes_edicao(store'[u], i) ELSE @]
          /\ user_states' = [user_states EXCEPT ![u].mode = None, ![u].buffer = ListBuffer]
          /\ ev' = [E0 EXCEPT !.fase = "comentario", !.ok = achou]
          /\ SemChamadas /\ UNCHANGED <<user_data, users>>
       \/ \* no flow and no mode that takes text: the fallback message
          /\ st.flow = None
          /\ st.mode \in {None, "coletando_pdfs", "adicionando_anexo_cartao", "busca_cartoes"}
          /\ text \in Palavras
          /\ ev' = [E0 EXCEPT !.fase = "nao_entendi"]
          /\ SemChamadas /\ UNCHANGED <<user_data, users, user_states, store, hist, botoes>>

handle_text(u) == handle_text_registro(u) \/ handle_text_modo(u)

\* ------------------------------------- conversation: the document handler
\* the session after a file was downloaded in the mode
\* adicionando_anexo_cartao: its path is appended to state["anexos"]
\* (variant: the path is not kept)
AnexoRecebidoNada(st, nome) == st

AnexoRecebido(st, nome) == [st EXCEPT !.anexos = Append(@, nome)]

handle_document(u) ==
  \E doc \in Docs, baixou \in BOOLEAN :
    LET st == user_states[u]
        E0 == Ev("documento", u)
    IN \/ /\ st.mode = "coletando_pdfs"
          /\ ~doc.pdf \/ ~baixou \/ extract_info_from_pdf(doc) = NoDraft
          /\ ev' = [E0 EXCEPT !.ok = FALSE, !.texto = doc.nome,
                       !.fase = (IF ~doc.pdf THEN "so_pdf"
                                 ELSE IF ~baixou THEN "erro_download" ELSE "extracao_falhou")]
          /\ SemChamadas /\ UNCHANGED <<user_data, users, user_states, store, hist, botoes>>
       \/ /\ st.mode = "coletando_pdfs"
          /\ doc.pdf /\ baixou /\ extract_info_from_pdf(doc) # NoDraft
          /\ Len(store[u].dir) < MaxPdfs
          /\ \E p \in 1..(Len(store[u].dir) + 1) :
               store' = [store EXCEPT ![u] = salvar_rascunho(@, extract_info_from_pdf(doc), p)]
          /\ hist' = [hist EXCEPT ![u].ap = Append(@, extract_info_from_pdf(doc))]
          /\ ev' = [E0 EXCEPT !.fase = "pdf_processado", !.texto = doc.nome,
                              !.dado = extract_info_from_pdf(doc)]
          /\ SemChamadas /\ UNCHANGED <<user_data, users, user_states, botoes>>
       \/ /\ st.mode = "adicionando_anexo_cartao"
          /\ ~baixou
          /\ ev' = [E0 EXCEPT !.fase = "erro_download", !.ok = FALSE]
          /\ SemChamadas /\ UNCHANGED <<user_data, users, user_states, store, hist, botoes>>
       \/ /\ st.mode = "adicionando_anexo_cartao"
          /\ baixou
          /\ Len(st.anexos) < MaxAnexos
          /\ user_states' = [user_states EXCEPT ![u] = AnexoRecebido(@, doc.nome)]
          /\ ev' = [E0 EXCEPT !.fase = "anexo_recebido"]
          /\ SemChamadas /\ UNCHANGED <<user_data, users, store, hist, botoes>>
       \/ \* handle_anexo_document: no handler sets the mode "anexo"
          /\ st.mode \notin {"coletando_pdfs", "adicionando_anexo_cartao"}
          /\ ev' = [E0 EXCEPT !.fase = "ignorado"]
          /\ SemChamadas /\ UNCHANGED <<user_data, users, user_states, store, hist, botoes>>

\* ------------------------------------- conversation: the callback handler
\* editar_data_cartao, add_comentario_cartao, add_checklist_cartao and
\* add_anexo_cartao: state.update(...) on the session as it is
EntraModo(st, d, i) ==
  CASE d = "editar_data" ->
         [st EXCEPT !.mode = "editando_data_cartao", !.index_cartao = i, !.buffer = ListBuffer]
    [] d = "add_comentario" ->
         [st EXCEPT !.mode = "adicionando_comentario_cartao", !.index_cartao = i,
                    !.buffer = ListBuffer]
    [] d = "add_checklist" ->
         [st EXCEPT !.mode = "add_checklist_pdf", !.checklist_stage = "aguardando_nome",
                    !.index_cartao = i, !.buffer = ListBuffer]
    [] d = "add_anexo" ->
         [st EXCEPT !.mode = "adicionando_anexo_cartao", !.index_cartao = i, !.anexos = <<>>]

handle_callback_query(u) ==
  \E b \in botoes[u] :
    LET st == user_states[u]
        s == store[u]
        rs == carregar_rascunhos(s)
        E0 == [Ev("callback", u) EXCEPT !.i = b.i, !.fase = b.d]
    IN \/ \* ok_cmd_from_callback
          /\ b.d \in {"atualizar_previa", "voltar_previa"}
          /\ botoes' = [botoes EXCEPT ![u] =
                          IF rs = <<>> THEN @ ELSE @ \cup BotoesPrevia(Len(rs))]
          /\ ev' = [E0 EXCEPT !.ok = (rs # <<>>)]
          /\ SemChamadas /\ UNCHANGED <<user_data, users, user_states, store, hist>>
       \/ /\ b.d = "criar_todos_cartoes"
          /\ criar_cartoes_cmd_from_callback(u, MaxFalhas)
       \/ /\ b.d = "editar_cartao"
          /\ botoes' = [botoes EXCEPT ![u] = @ \cup mostrar_opcoes_edicao(s, b.i)]
          /\ ev' = [E0 EXCEPT !.ok = (mostrar_opcoes_edicao(s, b.i) # {})]
          /\ SemChamadas /\ UNCHANGED <<user_data, users, user_states, store, hist>>
       \/ /\ b.d = "excluir_cartao"
          /\ ev' = E0
          /\ SemChamadas /\ UNCHANGED <<user_data, users, user_states, store, hist, botoes>>
       \/ /\ b.d \in {"editar_data", "add_comentario", "add_checklist", "add_anexo"}
          /\ user_states' = [user_states EXCEPT ![u] = EntraModo(st, b.d, b.i)]
          /\ botoes' = [botoes EXCEPT ![u] =
                          IF b.d = "add_anexo" THEN @ \cup {Botao("finalizar_anexos", NoIndex)}
                          ELSE @]
          /\ ev' = E0
          /\ SemChamadas /\ UNCHANGED <<user_data, users, store, hist>>
       \/ \* finalizar_anexos outside the attachment mode, or with nothing
          \* received, or for a draft that does not exist: at most a message
          /\ b.d = "finalizar_anexos"
          /\ \/ st.mode # "adicionando_anexo_cartao"
             \/ st.anexos = <<>>
             \/ ~TemRascunho(s, st.index_cartao)
          /\ ev' = [E0 EXCEPT !.ok = FALSE]
          /\ SemChamadas /\ UNCHANGED <<user_data, users, user_states, store, hist, botoes>>
       \/ \* finalizar_anexos: the pending list is flushed into the draft
          /\ b.d = "finalizar_anexos"
          /\ st.mode = "adicionando_anexo_cartao"
          /\ st.anexos # <<>>
          /\ TemRascunho(s, st.index_cartao)
          /\ hist[u].ed < MaxEdits
          /\ store' = [store EXCEPT ![u] =
                Editado(s, st.index_cartao,
                        [rs[st.index_cartao + 1] EXCEPT !.anexos = @ \o st.anexos])]
          /\ hist' = [hist EXCEPT ![u].at = TRUE, ![u].ed = @ + 1]
          /\ user_states' = [user_states EXCEPT ![u].mode = None, ![u].anexos = <<>>]
          /\ botoes' = [botoes EXCEPT ![u] =
                          @ \cup mostrar_opcoes_edicao(store'[u], st.index_cartao)]
          /\ ev' = [E0 EXCEPT !.i = st.index_cartao]
          /\ SemChamadas /\ UNCHANGED <<user_data, users>>

\* ------------------------------------ conversation: the multi-select menus
\* the ids of the members and of the labels GET /boards/<id>/members and
\* GET /boards/<id>/labels return, in the order of the answer
Membros == <<"m1", "m2">>
Etiquetas == <<"e1">>

Quadro(campo) == IF campo = "membros" THEN Membros ELSE Etiquetas

\* rascunho.get('membros_ids', []) and rascunho.get('etiquetas_ids', [])
Selecionados(r, campo) == IF campo = "membros" THEN r.membros_ids ELSE r.etiquetas_ids

ComSelecionados(r, campo, l) ==
  IF campo = "membros" THEN [r EXCEPT !.membros_ids = l] ELSE [r EXCEPT !.etiquetas_ids = l]

Disponiveis(ud, campo) ==
  IF campo = "membros" THEN ud.membros_disponiveis ELSE ud.etiquetas_disponiveis

\* list.remove(x): the list without the first x
Remover(l, x) ==
  LET p == CHOOSE q \in 1..Len(l) : l[q] = x /\ \A j \in 1..(q - 1) : l[j] # x
  IN SubSeq(l, 1, p - 1) \o SubSeq(l, p + 1, Len(l))

\* "if id in selecionados: selecionados.remove(id) else: selecionados.append(id)"
Alternar(l, x) == IF x \in Range(l) THEN Remover(l, x) ELSE Append(l, x)

\* add_membro_cartao and add_etiqueta_cartao for draft i, res being the
\* outcome of the GET (it raises, or returns a list): the menu is kept in
\* context.user_data and its keyboard is sent; an empty answer or an
\* exception gives a message (h is the history the sent menu is added to)
MenuSelecao(u, campo, i, res, h) ==
  IF ~res.ok \/ res.lista = <<>>
  THEN hist' = h /\ UNCHANGED <<user_data, botoes>>
  ELSE /\ hist' = [h EXCEPT ![u].menus = @ \cup {[campo |-> campo, i |-> i]}]
       /\ user_data' = [user_data EXCEPT ![u] =
            IF campo = "membros"
            THEN [@ EXCEPT !.membros_disponiveis = res.lista, !.index_cartao_editando = i]
            ELSE [@ EXCEPT !.etiquetas_disponiveis = res.lista, !.index_cartao_editando = i]]
       /\ botoes' = [botoes EXCEPT ![u] =
            @ \cup {Botao(IF campo = "membros" THEN "selecionar_membro"
                          ELSE "selecionar_etiqueta", k) : k \in 0..(Len(res.lista) - 1)}
              \cup {Botao(IF campo = "membros" THEN "finalizar_selecao_membros"
                          ELSE "finalizar_selecao_etiquetas", NoIndex),
                    Botao("editar_cartao", i)}]

Respostas(campo) ==
  {[ok |-> FALSE, lista |-> <<>>], [ok |-> TRUE, lista |-> <<>>],
   [ok |-> TRUE, lista |-> Quadro(campo)]}

add_membro_cartao(u, i, res, h) == MenuSelecao(u, "membros", i, res, h)

add_etiqueta_cartao(u, i, res, h) == MenuSelecao(u, "etiquetas", i, res, h)

\* selecionar_membro_handler and selecionar_etiqueta_handler for the k-th
\* entry of the menu: the draft at index_cartao_editando is loaded, the id is
\* toggled, the draft is written back and the menu is sent again
selecionar_handler(u, campo, k, E0) ==
  LET ud == user_data[u]
      disp == Disponiveis(ud, campo)
      i == ud.index_cartao_editando
      s == store[u]
      rs == carregar_rascunhos(s)
  IN \/ \* "Membro não encontrado", "Cartão não encontrado"
        /\ \/ disp = <<>> \/ k >= Len(disp)
           \/ rs = <<>> \/ i >= Len(rs) \/ i = NoIndex
        /\ ev' = [E0 EXCEPT !.ok = FALSE]
        /\ SemChamadas /\ UNCHANGED <<user_data, users, user_states, store, hist, botoes>>
     \/ /\ disp # <<>> /\ k < Len(disp)
        /\ rs # <<>> /\ i < Len(rs) /\ i # NoIndex
        /\ store' = [store EXCEPT ![u] =
              Editado(s, i, ComSelecionados(rs[i + 1], campo,
                                Alternar(Selecionados(rs[i + 1], campo), disp[k + 1])))]
        /\ \E res \in Respostas(campo) :
             MenuSelecao(u, campo, i, res, [hist EXCEPT ![u].at = TRUE])
        /\ ev' = [E0 EXCEPT !.i = i, !.dado = rs[i + 1], !.antes = rs, !.texto = disp[k + 1]]
        /\ SemChamadas /\ UNCHANGED <<users, user_states>>

selecionar_membro_handler(u, k, E0) == selecionar_handler(u, "membros", k, E0)

selecionar_etiqueta_handler(u, k, E0) == selecionar_handler(u, "etiquetas", k, E0)

\* handle_callback_query for the buttons of the two menus
handle_callback_query_selecao(u) ==
  \E b \in botoes[u] :
    LET E0 == [Ev("callback", u) EXCEPT !.i = b.i, !.fase = b.d]
        i == user_data[u].index_cartao_editando
    IN \/ /\ b.d = "add_membro"
          /\ \E res \in Respostas("membros") :
               /\ add_membro_cartao(u, b.i, res, hist)
               /\ ev' = [E0 EXCEPT !.ok = (res.ok /\ res.lista # <<>>)]
          /\ SemChamadas /\ UNCHANGED <<users, user_states, store>>
       \/ /\ b.d = "add_etiqueta"
          /\ \E res \in Respostas("etiquetas") :
               /\ add_etiqueta_cartao(u, b.i, res, hist)
               /\ ev' = [E0 EXCEPT !.ok = (res.ok /\ res.lista # <<>>)]
          /\ SemChamadas /\ UNCHANGED <<users, user_states, store>>
       \/ /\ b.d = "selecionar_membro"
          /\ selecionar_membro_handler(u, b.i, E0)
       \/ /\ b.d = "selecionar_etiqueta"
          /\ selecionar_etiqueta_handler(u, b.i, E0)
       \/ \* finalizar_selecao_membros, finalizar_selecao_etiquetas
          /\ b.d \in {"finalizar_selecao_membros", "finalizar_selecao_etiquetas"}
          /\ botoes' = [botoes EXCEPT ![u] =
                IF i = NoIndex THEN @ ELSE @ \cup mostrar_opcoes_edicao(store[u], i)]
          /\ ev' = [E0 EXCEPT !.i = i]
          /\ SemChamadas /\ UNCHANGED <<user_data, users, user_states, store, hist>>

\* --------------------------------- guided edits of one or two stored drafts
\* the state after /pedido, one or two order PDFs and /ok, with the edit menu
\* of every draft on the screen: the first document gave the draft "T1", the
\* second "T2", and os.listdir returns the two files in either order
InitEdit ==
  /\ users = [u \in AllUsers |-> IF u \in Users THEN Cred0 ELSE NoCred]
  /\ user_states = [u \in AllUsers |->
        IF u \in Users THEN [IdleState EXCEPT !.mode = "coletando_pdfs"] ELSE IdleState]
  /\ \E s \in {salvar_rascunho(EmptyStore, SeedDraft("T1", "N/A"), 1)}
              \cup {salvar_rascunho(salvar_rascunho(EmptyStore, SeedDraft("T1", "N/A"), 1),
                                    SeedDraft("T2", "25/12/2024"), p) : p \in 1..2} :
       /\ store = [u \in AllUsers |-> IF u \in Users THEN s ELSE EmptyStore]
       /\ hist = [u \in AllUsers |-> IF u \in Users
                     THEN [NoHist EXCEPT !.ap = s.arq] ELSE NoHist]
       /\ botoes = [u \in AllUsers |-> IF u \in Users
                     THEN BotoesPrevia(Len(s.dir))
                          \cup UNION {mostrar_opcoes_edicao(s, i) : i \in 0..(Len(s.dir) - 1)}
                     ELSE {}]
  /\ calls = <<>>
  /\ report = NoReport
  /\ user_data = [u \in AllUsers |-> NoUserData]
  /\ ev = [Ev("ok", "opA") EXCEPT !.fase = "previa"]

\* the guided edits that go through a mode of the session
NextEdit ==
  \E u \in Users :
    \/ cancelar_cmd(u)
    \/ handle_text_modo(u)
    \/ handle_document(u)
    \/ handle_callback_query(u)

SpecEdit == InitEdit /\ [][NextEdit]_vars

\* the two multi-select menus
NextSelecao == \E u \in Users : handle_callback_query_selecao(u)

SpecSelecao == InitEdit /\ [][NextSelecao]_vars

\* --------------------------------------------------------- two operators
MaxDuo == 1

\* two operators, the first configured: /pedido and /cancelar of each and
\* the calls of the store functions for each, in any interleaving, with
\* MaxDuo drafts at most in a store
InitDuo ==
  /\ \E c \in {NoCred, Cred0} :
       users = [u \in AllUsers |-> IF u = "opA" THEN Cred0 ELSE c]
  /\ user_states = [u \in AllUsers |-> IdleState]
  /\ store = [u \in AllUsers |-> EmptyStore]
  /\ hist = [u \in AllUsers |-> NoHist]
  /\ calls = <<>>
  /\ report = NoReport
  /\ botoes = [u \in AllUsers |-> {}]
  /\ user_data = [u \in AllUsers |-> NoUserData]
  /\ ev = Ev("init", "opA")

NextDuo ==
  \E u \in AllUsers :
    \/ cancelar_cmd(u)
    \/ pdf_cmd(u)
    \/ ChamaSalvar(u) /\ Len(store'[u].dir) <= MaxDuo
    \/ ChamaAtualizar(u)
    \/ ChamaLimpar(u)

SpecDuo == InitDuo /\ [][NextDuo]_vars

\* ------------------------------------------- parse_date_ddmmaa on its own
\* the texts handed to parse_date_ddmmaa: a day, a month and a year written
\* in several ways, joined by "/" or "-", with or without a space at the
\* ends, and some texts of another shape
TextosData ==
  LET DiasTxt ==
        { <<"1">>, <<"0", "1">>, <<"2", "9">>, <<"3", "0">>, <<"3", "1">>, <<"3", "2">>,
          <<"0">>, <<"0", "0", "1">> }
      MesesTxt ==
        { <<"2">>, <<"0", "2">>, <<"0", "4">>, <<"1", "2">>, <<"1", "3">>, <<"0">> }
      AnosTxt ==
        { <<"2", "0", "2", "4">>, <<"2", "0", "2", "3">>, <<"1", "9", "0", "0">>,
          <<"2", "0", "0", "0">>, <<"1", "0", "0", "0">>, <<"0", "9", "9", "9">>,
          <<"0", "0", "0", "1">>, <<"0", "0", "0", "0">>, <<"2", "4">>,
          <<"2", "0", "2", "4", "5">> }
      Margens == { <<>>, <<" ">> }
      OutrosTxt ==
        { <<>>, <<"a">>, <<"/", "/">>, <<"2", "5", "/", "1", "2">>,
          <<"2", "5", " ", "/", "1", "2", "/", "2", "0", "2", "4">>,
          <<"2", "5", "/", "1", "2", "/", "2", "0", "2", "4", "/">>,
          <<"2", "5", "/", "1", "2", "/", "2", "0", "2", "4", "a">> }
  IN  { e \o d \o <<s1>> \o m \o <<s2>> \o y \o f :
          e \in Margens, d \in DiasTxt, s1 \in {"/", "-"}, m \in MesesTxt,
          s2 \in {"/", "-"}, y \in AnosTxt, f \in Margens }
      \cup OutrosTxt

InitData ==
  /\ users = [u \in AllUsers |-> NoCred]
  /\ user_states = [u \in AllUsers |-> IdleState]
  /\ store = [u \in AllUsers |-> EmptyStore]
  /\ hist = [u \in AllUsers |-> NoHist]
  /\ calls = <<>>
  /\ report = NoReport
  /\ botoes = [u \in AllUsers |-> {}]
  /\ user_data = [u \in AllUsers |-> NoUserData]
  /\ \E cs \in TextosData : ev = [Ev("entrada", "opA") EXCEPT !.texto = cs]

\* one call of parse_date_ddmmaa on the text; its result is kept in ev.pend
chama_parse_date ==
  /\ ev.op = "entrada"
  /\ \E preenche \in BOOLEAN :
       ev' = [ev EXCEPT !.op = "parse_date", !.pend = parse_date_ddmmaa(ev.texto, preenche)]
  /\ UNCHANGED <<user_data, users, user_states, store, hist, calls, report, botoes>>

SpecData == InitData /\ [][chama_parse_date]_vars

\* ------------------------------- guided checklist over every short message
MaxLen == 5
MaxNome == 2

Alfabeto == {"a", "-", " "}

\* 'a -- b --  -- c'
Exemplo == <<"a", " ", "-", "-", " ", "b", " ", "-", "-", " ", " ", "-", "-", " ", "c">>

\* the message texts: every text of MaxLen characters at most, and the example
Mensagens == SeqsUpTo(Alfabeto, MaxLen) \cup {Exemplo}

\* handle_text for a session in the guided checklist of a draft: the text is
\* stripped, an empty text is dropped without an answer, any other text goes
\* to handle_checklist_creation (the names tried have MaxNome characters at
\* most)
handle_text_checklist(u) ==
  \E cs \in Mensagens :
    LET st == user_states[u]
        E0 == [Ev("texto", u) EXCEPT !.i = st.index_cartao, !.texto = cs]
    IN /\ st.flow = None /\ st.mode = "add_checklist_pdf"
       /\ \/ /\ strip(cs) = <<>>
             /\ ev' = [E0 EXCEPT !.fase = "vazio", !.ok = FALSE]
             /\ SemChamadas /\ UNCHANGED <<user_data, users, user_states, store, hist, botoes>>
          \/ /\ strip(cs) # <<>>
             /\ st.checklist_stage = "aguardando_nome" => Len(cs) <= MaxNome
             /\ handle_checklist_creation(u, strip(cs), items(strip(cs)), E0)

\* the session after the button add_checklist|0 of the edit menu, pressed
\* while the draft is in the store or after a /pedido that removed it
InitChecklist ==
  /\ users = [u \in AllUsers |-> IF u \in Users THEN RegistroSalvo([api_key |-> "k", token |-> "k"], "k")
                                                ELSE NoCred]
  /\ user_states = [u \in AllUsers |-> IF u \in Users THEN EntraModo(IdleState, "add_checklist", 0)
                                                      ELSE IdleState]
  /\ \E s \in {EmptyStore, salvar_rascunho(EmptyStore, SeedDraft("T1", "N/A"), 1)} :
       /\ store = [u \in AllUsers |-> IF u \in Users THEN s ELSE EmptyStore]
       /\ hist = [u \in AllUsers |-> IF u \in Users
                                     THEN [NoHist EXCEPT !.ap = carregar_rascunhos(s)] ELSE NoHist]
  /\ calls = <<>>
  /\ report = NoReport
  /\ botoes = [u \in AllUsers |-> IF u \in Users
                    THEN BotoesPrevia(1) \cup mostrar_opcoes_edicao(
                           salvar_rascunho(EmptyStore, SeedDraft("T1", "N/A"), 1), 0)
                    ELSE {}]
  /\ user_data = [u \in AllUsers |-> NoUserData]
  /\ ev = [Ev("callback", "opA") EXCEPT !.i = 0, !.fase = "add_checklist"]

NextChecklist == \E u \in Users : handle_text_checklist(u)

SpecChecklist == InitChecklist /\ [][NextChecklist]_vars

\* ------------------------------------------- conversation: specification
Init ==
  /\ users = [u \in AllUsers |-> NoCred]
  /\ user_states = [u \in AllUsers |-> IdleState]
  /\ store = [u \in AllUsers |-> EmptyStore]
  /\ hist = [u \in AllUsers |-> NoHist]
  /\ calls = <<>>
  /\ report = NoReport
  /\ botoes = [u \in AllUsers |-> {}]
  /\ user_data = [u \in AllUsers |-> NoUserData]
  /\ ev = Ev("init", "opA")

Next ==
  \E u \in Users :
    \/ start_cmd(u)
    \/ config_cmd(u)
    \/ cancelar_cmd(u)
    \/ fim_cmd(u)
    \/ buscar_cmd(u)
    \/ addchk_cmd(u)
    \/ pdf_cmd(u)
    \/ ok_cmd(u)
    \/ criar_cartoes_cmd(u, MaxFalhas)
    \/ handle_text(u)
    \/ handle_document(u)
    \/ handle_callback_query(u)

Spec == Init /\ [][Next]_vars

\* ------------------------------------------------------ claims on the store
\* C1 (as claimed): after N calls of salvar_rascunho on an empty store, and no
\* other store operation, carregar_rascunhos returns the N drafts in call
\* order, the k-th appended at index k-1.
C1_StoreOrdering ==
  \A u \in Users : ~hist[u].at => carregar_rascunhos(store[u]) = hist[u].ap

\* C2 (as claimed): after atualizar_rascunho(u, i, d) with 0 <= i < N,
\* carregar_rascunhos returns the list it returned before with only position i
\* replaced by d.
C2_ReplaceIsolation ==
  (ev.op = "atualizar" /\ 0 <= ev.i /\ ev.i < Len(ev.antes))
    => carregar_rascunhos(store[ev.u]) = [ev.antes EXCEPT ![ev.i + 1] = ev.dado]

\* C3 (as claimed): appending a draft leaves every existing index addressing
\* the file it addressed before, for carregar_rascunhos (listdir order) and for
\* atualizar_rascunho (sorted order), the indices in use being 0..N-1 with the
\* new draft at index N.
C3_IndexStability ==
  [][ \A u \in Users :
        (ev'.op = "salvar" /\ ev'.u = u) =>
           LET n == Len(store[u].dir)
           IN /\ SubSeq(store'[u].dir, 1, n) = store[u].dir
              /\ SubSeq(arquivos_ordenados(store'[u]), 1, n) = arquivos_ordenados(store[u])
              /\ store'[u].dir[n + 1] = n
              /\ arquivos_ordenados(store'[u])[n + 1] = n ]_vars

\* ------------------------------------------- claims on the commit pipeline
Processou == ev.op \in {"criar", "criar_callback"} /\ ev.fase = "processou"

Abortou == ev.op \in {"criar", "criar_callback"} /\ ev.fase \in {"erro_listas", "lista_ausente"}

\* the calls issued for the d-th draft of the last run, and their outcome
Emitidas(d) == { <<c.d, c.op, c.j, c.k>> : c \in {x \in Range(calls) : x.d = d} }

Falhou(d, op, j, k) == \E c \in Range(calls) : c.d = d /\ c.op = op /\ c.j = j /\ c.k = k /\ ~c.ok

CardCriado(d) == \E c \in Range(calls) : c.d = d /\ c.op = "card" /\ c.ok

NoRelatorio(lista, d) == \E e \in Range(lista) : e.i = d /\ e.nome = ev.antes[d].titulo

\* C5: in a commit run, a draft whose create-card call fails is recorded in
\* erros with the reason of that failure and no checklist, item, comment,
\* member, label or attachment call is issued for it; every other draft has
\* its card created and is recorded in cartoes_criados.
C5_BaseCreateIsolation ==
  Processou =>
    \A d \in 1..Len(ev.antes) :
      /\ Cardinality({i \in DOMAIN calls : calls[i].d = d /\ calls[i].op = "card"}) = 1
      /\ Falhou(d, "card", 0, 0) =>
           /\ \E e \in Range(report.erros) :
                 e.i = d /\ e.nome = ev.antes[d].titulo /\ e.motivo = "card"
           /\ ~NoRelatorio(report.criados, d)
           /\ Emitidas(d) = {<<d, "card", 0, 0>>}
      /\ ~Falhou(d, "card", 0, 0) =>
           /\ CardCriado(d)
           /\ NoRelatorio(report.criados, d)
           /\ ~NoRelatorio(report.erros, d)

\* three drafts, the second one with secondary content and a failed create,
\* the first and the third created
C5_Witness ==
  /\ Processou
  /\ Len(ev.antes) = 3
  /\ ev.antes[2].checklists # <<>>
  /\ Falhou(2, "card", 0, 0)
  /\ CardCriado(1) /\ CardCriado(3)
  /\ Len(report.erros) = 1 /\ Len(report.criados) = 2

\* the secondary calls the d-th draft of the run asks for
SlotsDe(d) == { s \in Slots(ev.antes) : s[1] = d /\ s[2] # "card" }

\* an item whose checklist was not created cannot be added
ItemSemChecklist(s) == s[2] = "checkitem" /\ Falhou(s[1], "checklist", s[3], 0)

\* an item that follows, in its checklist, an item whose call failed
ItemAposFalha(s) ==
  s[2] = "checkitem" /\ \E k \in 1..(s[4] - 1) : Falhou(s[1], "checkitem", s[3], k)

\* C6 (as claimed): when a secondary call of a created draft fails (a checklist
\* creation, a checklist item, the comment, a member, a label, an attachment),
\* the draft still counts as created and every other secondary call of that
\* draft is still issued, as is the next draft's create.
C6_AllSecondariesIssued ==
  Processou =>
    \A d \in 1..Len(ev.antes) :
      CardCriado(d) =>
        /\ NoRelatorio(report.criados, d) /\ ~NoRelatorio(report.erros, d)
        /\ \A s \in SlotsDe(d) : ItemSemChecklist(s) \/ s \in Emitidas(d)
        /\ d < Len(ev.antes) => <<d + 1, "card", 0, 0>> \in Emitidas(d + 1)

\* C6 (amended): as above, except that the items that follow a failed item in
\* the same checklist are not issued: exactly the other secondary calls are.
C6_SecondaryIsolation ==
  Processou =>
    \A d \in 1..Len(ev.antes) :
      CardCriado(d) =>
        /\ NoRelatorio(report.criados, d) /\ ~NoRelatorio(report.erros, d)
        /\ \A s \in SlotsDe(d) :
              (s \in Emitidas(d)) <=> ~(ItemSemChecklist(s) \/ ItemAposFalha(s))
        /\ d < Len(ev.antes) => <<d + 1, "card", 0, 0>> \in Emitidas(d + 1)

\* a created draft, not the last one, whose first checklist item failed, with
\* a second item, and whose comment failed too
C6_Witness ==
  /\ Processou
  /\ Len(ev.antes) >= 2
  /\ CardCriado(1)
  /\ Falhou(1, "checkitem", 1, 1)
  /\ <<1, "checkitem", 1, 2>> \in SlotsDe(1)
  /\ Falhou(1, "comentario", 1, 0)
  /\ <<1, "anexo", 1, 0>> \in Emitidas(1)

\* C7: after a commit run that processed the drafts, whatever the number of
\* drafts that failed, the operator's store is empty.
C7_StoreEmptyAfterCommit ==
  Processou => /\ store[ev.u] = EmptyStore
               /\ carregar_rascunhos(store[ev.u]) = <<>>

\* a run over three drafts with one failure and two cards
C7_Witness ==
  /\ Processou
  /\ Len(ev.antes) = 3
  /\ Len(report.erros) = 1
  /\ Len(report.criados) = 2
  /\ store[ev.u] = EmptyStore

Etapa(op) ==
  CASE op = "card" -> 0
    [] op \in {"checklist", "checkitem"} -> 1
    [] op = "comentario" -> 2
    [] op = "membro" -> 3
    [] op = "etiqueta" -> 4
    [] op = "anexo" -> 5

Chave(c) == << c.d, Etapa(c.op), c.j, c.k >>

LexAntes(a, b) ==
  \E n \in 1..4 : a[n] < b[n] /\ \A m \in 1..(n - 1) : a[m] = b[m]

\* C9: the calls of a run are issued draft by draft in stored order, and for
\* one draft in the order: create card, each checklist followed by its items
\* (checklists and items in stored order), the comment (at most one), the
\* members, the labels, the attachments (each group in stored order); a call
\* other than the create is issued only after the create of its draft returned.
C9_CallOrder ==
  Processou =>
    /\ \A a, b \in DOMAIN calls : a < b => LexAntes(Chave(calls[a]), Chave(calls[b]))
    /\ \A a \in DOMAIN calls :
         /\ calls[a].d \in 1..Len(ev.antes)
         /\ calls[a].nome = ev.antes[calls[a].d].titulo
         /\ <<calls[a].d, calls[a].op, calls[a].j, calls[a].k>> \in Slots(ev.antes)
         /\ calls[a].op # "card" =>
              \E b \in 1..(a - 1) : calls[b].d = calls[a].d /\ calls[b].op = "card" /\ calls[b].ok
         /\ calls[a].op = "checkitem" =>
              \E b \in 1..(a - 1) : /\ calls[b].d = calls[a].d /\ calls[b].op = "checklist"
                                    /\ calls[b].j = calls[a].j /\ calls[b].ok

\* a run of two drafts or more in which a draft with two checklists, a
\* comment, members, a label and an attachment had every call issued
C9_Witness ==
  /\ Processou
  /\ Len(ev.antes) >= 2
  /\ \E d \in 1..Len(ev.antes) :
       /\ Len(ev.antes[d].checklists) = 2
       /\ Len(ev.antes[d].membros_ids) = 2
       /\ Emitidas(d) = { s \in Slots(ev.antes) : s[1] = d }
       /\ Cardinality(Emitidas(d)) = 11

Titulos(rs) == [k \in DOMAIN rs |-> rs[k].titulo]

\* the titles of the create-card calls of a log, in call order
CardsDe(log) ==
  LET cards == SelectSeq(log, LAMBDA c : c.op = "card")
  IN [k \in DOMAIN cards |-> cards[k].nome]

\* C10 (as claimed): a commit run processes the drafts in the order in which
\* they were appended: the k-th create-card call is for the k-th appended
\* draft.
C10_CreationOrder ==
  [][ \A u \in Users :
        (ev'.fase = "processou" /\ ev'.u = u /\ ~hist[u].at) =>
           CardsDe(calls') = Titulos(hist[u].ap) ]_vars

Visivel(c) ==
  \/ \E e \in Range(report.erros) : e.i = c.d /\ e.motivo = c.op
  \/ \E m \in Range(report.msgs) : m.i = c.d /\ m.tipo = "erro_cartao" /\ c.op = "card"

\* C12 (as claimed): every call of a commit run that failed, the create or a
\* secondary one (checklist, item, comment, member, label, attachment), is
\* visible to the operator in the messages or the summary of the run, which
\* identify what failed.
C12_FailuresVisible ==
  Processou => \A c \in Range(calls) : ~c.ok => Visivel(c)

\* C13 (as claimed): a commit run, started by /criar or by the button
\* criar_todos_cartoes, sends the operator one message for each processed
\* draft, in processing order, and after them the summary of the run.
C13_StreamingFeedback ==
  Processou =>
    /\ Len(report.msgs) = Len(ev.antes) + 1
    /\ \A d \in 1..Len(ev.antes) :
          /\ report.msgs[d].i = d
          /\ report.msgs[d].tipo = (IF CardCriado(d) THEN "cartao_criado" ELSE "erro_cartao")
    /\ report.msgs[Len(report.msgs)].tipo = "resumo"

\* ---------------------------------------------- claims on the conversation
\* C4 (as claimed): whatever the session of an operator (any mode, any stage,
\* the stages of the credential flow included, any pending buffer), after
\* /cancelar it has no mode and no flow, no pending credential part, no
\* pending checklist name and no pending attachment list, and the operator's
\* draft store is as it was.
C4_CancelRestoresIdle ==
  [][ \A u \in Users :
        (ev'.op = "cancelar" /\ ev'.u = u) =>
           /\ user_states'[u].mode = None
           /\ user_states'[u].flow = None
           /\ user_states'[u].buffer.api_key = None
           /\ user_states'[u].buffer.token = None
           /\ user_states'[u].checklist_name = None
           /\ user_states'[u].anexos = <<>>
           /\ store'[u] = store[u] ]_vars

\* a credential record with its three fields
Completo(c) == c.api_key # None /\ c.token # None /\ c.board_id # None

\* C14: the persisted credential record of an operator is absent or holds the
\* three fields; it changes only at the last stage of a credential flow, where
\* it is written whole from the key and the token buffered by the two earlier
\* stages of that flow and the board id just received, the session returning
\* to idle; a flow that is abandoned or broken leaves the record as it was.
C14_CredentialAtomicity ==
  /\ [](\A u \in Users :
          /\ users[u] = NoCred \/ Completo(users[u])
          /\ (user_states[u].flow \in {"register_token", "register_board"}
                /\ user_states[u].buffer.tipo = "dict") => user_states[u].buffer.api_key # None
          /\ (user_states[u].flow = "register_board"
                /\ user_states[u].buffer.tipo = "dict") => user_states[u].buffer.token # None)
  /\ [][ \A u \in Users :
           users'[u] # users[u] =>
              /\ ev'.op = "texto" /\ ev'.fase = "board" /\ ev'.u = u
              /\ user_states[u].flow = "register_board"
              /\ users'[u].api_key = user_states[u].buffer.api_key
              /\ users'[u].token = user_states[u].buffer.token
              /\ Completo(users'[u])
              /\ user_states'[u] = IdleState ]_vars

\* a reconfiguration of a configured operator that reached the board stage
\* and broke there (the buffer was replaced by a guided edit): the record
\* saved before is still in place
C14_Witness ==
  /\ ev.op = "texto" /\ ev.fase = "excecao"
  /\ user_states[ev.u].flow = "register_board"
  /\ user_states[ev.u].buffer.tipo = "list"
  /\ Completo(users[ev.u])

\* C15 (as claimed): a command other than /start and /config (/buscar,
\* /pedido, /ok, /criar, /cancelar, /addchk) issued by an operator with no
\* persisted credentials is rejected with the message that asks for the
\* credentials, and changes neither the session nor the draft store.
C15_CredentialGate ==
  [][ \A u \in Users :
        (/\ ev'.u = u
         /\ ev'.op \in {"buscar", "pedido", "ok", "criar", "cancelar", "addchk"}
         /\ users[u] = NoCred) =>
           /\ ev'.fase = "sem_credenciais"
           /\ user_states'[u] = user_states[u]
           /\ store'[u] = store[u] ]_vars

\* a text received by the date edit: no credential flow, mode
\* editando_data_cartao
TextoNaEdicaoDeData(u) ==
  /\ ev'.op = "texto" /\ ev'.u = u
  /\ user_states[u].flow = None
  /\ user_states[u].mode = "editando_data_cartao"

\* C16 (as claimed): in the date edit, a text that does not parse as a date
\* leaves the session in the mode editando_data_cartao, waiting for a value;
\* the mode returns to idle only after a text that parses.
C16_DateEditReprompts ==
  [][ \A u \in Users :
        TextoNaEdicaoDeData(u) =>
           /\ parse_date_ddmmaa(Caracteres(ev'.texto), TRUE) = NoDate
                 => user_states'[u].mode = "editando_data_cartao"
           /\ user_states'[u].mode = None => parse_date_ddmmaa(Caracteres(ev'.texto), TRUE) # NoDate ]_vars

\* C17: in the date edit, a text that does not parse as a date leaves the
\* draft store as it was (no draft's date or edited flag changes) and the
\* operator is sent the invalid-format message.
C17_ValidationPrecedesMutation ==
  [][ \A u \in Users :
        (TextoNaEdicaoDeData(u) /\ parse_date_ddmmaa(Caracteres(ev'.texto), TRUE) = NoDate) =>
           /\ store'[u] = store[u]
           /\ ev'.fase = "data_invalida"
           /\ ~ev'.ok ]_vars

\* the text 31/02/2024 was sent in the date edit of a draft that exists: the
\* draft still has the date it had
C17_Witness ==
  /\ ev.op = "texto" /\ ev.fase = "data_invalida"
  /\ ev.texto = "31/02/2024"
  /\ TemRascunho(store[ev.u], ev.i)
  /\ carregar_rascunhos(store[ev.u])[ev.i + 1].data_entrega = "N/A"
  /\ ~carregar_rascunhos(store[ev.u])[ev.i + 1].editado

\* C20: in the mode adicionando_anexo_cartao a file event appends one path
\* to the pending list of the session when the file is downloaded (none when
\* the download fails) and leaves the draft store as it was, as does the
\* button that starts the collection; /cancelar in that mode discards the
\* pending list and leaves the store as it was, so that the attachments of
\* the draft are those it had before the collection started.
C20_AttachmentBuffering ==
  [][ \A u \in Users :
        /\ (/\ ev'.op = "documento" /\ ev'.u = u
            /\ user_states[u].mode = "adicionando_anexo_cartao") =>
              /\ store'[u] = store[u]
              /\ user_states'[u].mode = "adicionando_anexo_cartao"
              /\ ev'.ok => (/\ Len(user_states'[u].anexos) = Len(user_states[u].anexos) + 1
                            /\ SubSeq(user_states'[u].anexos, 1, Len(user_states[u].anexos))
                                 = user_states[u].anexos)
              /\ ~ev'.ok => user_states'[u].anexos = user_states[u].anexos
        /\ (ev'.op = "callback" /\ ev'.u = u /\ ev'.fase = "add_anexo") =>
              /\ store'[u] = store[u]
              /\ user_states'[u].mode = "adicionando_anexo_cartao"
              /\ user_states'[u].anexos = <<>>
        /\ (/\ ev'.op = "cancelar" /\ ev'.u = u
            /\ user_states[u].mode = "adicionando_anexo_cartao") =>
              /\ store'[u] = store[u]
              /\ user_states'[u].mode = None
              /\ user_states'[u].anexos = <<>> ]_vars

\* /cancelar was processed in the attachment collection of a draft with a
\* file pending: the draft has no attachment
C20_Witness ==
  /\ ev.op = "cancelar" /\ ev.texto = "adicionando_anexo_cartao"
  /\ ev.pend # <<>>
  /\ user_states[ev.u].anexos = <<>>
  /\ \E d \in Range(carregar_rascunhos(store[ev.u])) : d.anexos = <<>>

\* ------------------------------------------ claims on the guided checklist
\* a delimiter starts at position p of cs: two dashes, after an even number
\* of dashes of the same run
TracosAntes(cs, p) ==
  Cardinality({q \in 1..(p - 1) : \A r \in q..(p - 1) : cs[r] = "-"})

Delimitador(cs, p) ==
  /\ p + 1 <= Len(cs) /\ cs[p] = "-" /\ cs[p + 1] = "-"
  /\ TracosAntes(cs, p) % 2 = 0

\* the k-th delimiter of cs, and the segments between the delimiters
Corte(cs, k) ==
  CHOOSE p \in 1..Len(cs) :
    Delimitador(cs, p) /\ Cardinality({q \in 1..(p - 1) : Delimitador(cs, q)}) = k - 1

NumCortes(cs) == Cardinality({p \in 1..Len(cs) : Delimitador(cs, p)})

Pedacos(cs) ==
  [k \in 1..(NumCortes(cs) + 1) |->
     SubSeq(cs, IF k = 1 THEN 1 ELSE Corte(cs, k - 1) + 2,
                IF k = NumCortes(cs) + 1 THEN Len(cs) ELSE Corte(cs, k) - 1)]

\* a segment without the white space around it
Aparado(seg) ==
  LET nz == {k \in 1..Len(seg) : seg[k] # " "}
  IN IF nz = {} THEN <<>>
     ELSE SubSeq(seg, CHOOSE k \in nz : \A m \in nz : k <= m,
                      CHOOSE k \in nz : \A m \in nz : k >= m)

\* the segments of cs between the delimiters "--", trimmed, the empty ones
\* removed, in the order of the text
ItensEsperados(cs) ==
  SelectSeq([k \in DOMAIN Pedacos(cs) |-> Aparado(Pedacos(cs)[k])], LAMBDA x : x # <<>>)

\* the checklist the last text added to its draft
ChecklistAdicionada ==
  LET d == carregar_rascunhos(store[ev.u])[ev.i + 1] IN d.checklists[Len(d.checklists)]

\* C18: the items derived from an items message are the segments of the text
\* between the delimiters "--", each without the white space around it, the
\* empty ones removed, in the order of the text; 'a -- b --  -- c' gives
\* [a, b, c].
C18_ChecklistSegmentation ==
  /\ (ev.op = "texto" /\ ev.fase = "itens_checklist") =>
        /\ ItensEsperados(ev.texto) # <<>>
        /\ ev.ok => ChecklistAdicionada.itens = ItensEsperados(ev.texto)
        /\ (ev.ok /\ ev.texto = Exemplo) =>
              ChecklistAdicionada.itens = << <<"a">>, <<"b">>, <<"c">> >>
  /\ (ev.op = "texto" /\ ev.fase = "sem_itens") => ItensEsperados(ev.texto) = <<>>

\* the example was received in the items stage of a checklist named "a"
C18_Witness ==
  /\ ev.op = "texto" /\ ev.fase = "itens_checklist" /\ ev.ok
  /\ ev.texto = Exemplo
  /\ ChecklistAdicionada.nome = <<"a">>
  /\ ChecklistAdicionada.itens = << <<"a">>, <<"b">>, <<"c">> >>

\* C19: in the items stage, a message without a non-empty segment leaves the
\* session in the items stage with the checklist name it had and leaves the
\* draft store as it was; the stage is left only with one item at least; in
\* the name stage, an empty name leaves the session in the name stage.
C19_ChecklistNeedsItem ==
  [][ \A u \in Users :
        (/\ ev'.op = "texto" /\ ev'.u = u
         /\ user_states[u].flow = None /\ user_states[u].mode = "add_checklist_pdf") =>
           /\ (/\ user_states[u].checklist_stage = "aguardando_itens"
               /\ ItensEsperados(ev'.texto) = <<>>) =>
                 /\ user_states'[u].mode = "add_checklist_pdf"
                 /\ user_states'[u].checklist_stage = "aguardando_itens"
                 /\ user_states'[u].checklist_name = user_states[u].checklist_name
                 /\ store'[u] = store[u]
           /\ (/\ user_states[u].checklist_stage = "aguardando_itens"
               /\ user_states'[u].checklist_stage # "aguardando_itens") =>
                 ItensEsperados(ev'.texto) # <<>>
           /\ (/\ user_states[u].checklist_stage = "aguardando_nome"
               /\ Aparado(ev'.texto) = <<>>) =>
                 /\ user_states'[u].mode = "add_checklist_pdf"
                 /\ user_states'[u].checklist_stage = "aguardando_nome" ]_vars

\* the message ' -- ' was received in the items stage, for a draft that
\* exists: the session still waits for the items of the checklist named
C19_Witness ==
  /\ ev.op = "texto" /\ ev.fase = "sem_itens"
  /\ ev.texto = <<" ", "-", "-", " ">>
  /\ user_states[ev.u].checklist_stage = "aguardando_itens"
  /\ user_states[ev.u].checklist_name = <<"a">>
  /\ TemRascunho(store[ev.u], ev.i)
  /\ carregar_rascunhos(store[ev.u])[ev.i + 1].checklists = <<>>

\* ------------------------------------------------- claims on the guided edits
\* the button finalizar_anexos pressed in the mode adicionando_anexo_cartao
\* with files pending and the target draft in the store
FlushDeAnexos(u) ==
  /\ ev'.op = "callback" /\ ev'.u = u /\ ev'.fase = "finalizar_anexos"
  /\ ev' # ev
  /\ user_states[u].mode = "adicionando_anexo_cartao"
  /\ user_states[u].anexos # <<>>
  /\ TemRascunho(store[u], user_states[u].index_cartao)

\* C21 (as claimed): when the operator presses finalizar_anexos in the
\* attachment collection of draft i with a pending list that is not empty and
\* draft i in the store, in that event the attachment list of draft i becomes
\* its previous list followed by the pending paths in arrival order, the
\* pending list becomes empty and the mode becomes idle.
C21_AttachmentFlush ==
  [][ \A u \in Users :
        FlushDeAnexos(u) =>
          LET i == user_states[u].index_cartao
          IN /\ TemRascunho(store'[u], i)
             /\ carregar_rascunhos(store'[u])[i + 1].anexos
                  = carregar_rascunhos(store[u])[i + 1].anexos \o user_states[u].anexos
             /\ user_states'[u].anexos = <<>>
             /\ user_states'[u].mode = None ]_vars

\* C22 (as claimed): the command /ok sent in the mode adicionando_anexo_cartao
\* with at least one file pending finalizes the collection, as the prompt of
\* add_anexo_cartao says: the pending paths are added to the attachments of the
\* draft and the mode becomes idle.
C22_OkFinalizesAttachments ==
  [][ \A u \in Users :
        ( /\ ev'.op = "ok" /\ ev'.u = u
          /\ user_states[u].mode = "adicionando_anexo_cartao"
          /\ user_states[u].anexos # <<>>
          /\ TemRascunho(store[u], user_states[u].index_cartao) )
        => LET i == user_states[u].index_cartao
           IN /\ TemRascunho(store'[u], i)
              /\ carregar_rascunhos(store'[u])[i + 1].anexos
                   = carregar_rascunhos(store[u])[i + 1].anexos \o user_states[u].anexos
              /\ user_states'[u].mode = None ]_vars

\* C23 (as claimed): after /pedido has put the session in the mode
\* coletando_pdfs, the explicit done event /ok returns the mode to idle.
C23_CollectionEndsOnOk ==
  [][ \A u \in Users :
        (ev'.op = "ok" /\ ev'.u = u /\ user_states[u].mode = "coletando_pdfs")
           => user_states'[u].mode = None ]_vars

\* C24: /pedido by a configured operator leaves that operator's store empty
\* and the session collecting, and from then on a draft enters the store only
\* as the draft extracted from a document received in the mode coletando_pdfs:
\* no draft stored before the /pedido is in the store after it.
C24_FreshCollection ==
  [][ \A u \in Users :
        /\ (ev'.op = "pedido" /\ ev'.u = u /\ ev' # ev /\ users[u] # NoCred)
             => /\ carregar_rascunhos(store'[u]) = <<>>
                /\ user_states'[u].mode = "coletando_pdfs"
        /\ Len(store'[u].dir) > Len(store[u].dir)
             => /\ ev'.op = "documento" /\ ev'.fase = "pdf_processado"
                /\ user_states[u].mode = "coletando_pdfs"
                /\ Len(store'[u].dir) = Len(store[u].dir) + 1
                /\ \E p \in 1..Len(store'[u].dir) :
                     store'[u] = salvar_rascunho(store[u], ev'.dado, p) ]_vars

\* a /pedido that found a draft of an earlier collection and removed it
C24_Witness ==
  /\ ev.op = "pedido" /\ ev.antes # <<>>
  /\ carregar_rascunhos(store[ev.u]) = <<>>
  /\ user_states[ev.u].mode = "coletando_pdfs"

\* C25: in the mode coletando_pdfs, a document that is not a PDF or from which
\* nothing can be extracted creates no draft and leaves the store as it was,
\* the operator is sent an error message and the mode stays coletando_pdfs;
\* the order PDF sent right after a rejected document is appended as usual.
C25_ExtractionFailureLocal ==
  [][ \A u \in Users :
        (ev'.op = "documento" /\ ev'.u = u /\ user_states[u].mode = "coletando_pdfs")
        => /\ ev'.texto \in {"p2", "f1"}
                => /\ store'[u] = store[u]
                   /\ user_states'[u] = user_states[u]
                   /\ ~ev'.ok
                   /\ ev'.fase \in {"so_pdf", "erro_download", "extracao_falhou"}
           /\ (ev.op = "documento" /\ ~ev.ok /\ ev'.texto = "p1" /\ ev'.fase # "erro_download")
                => /\ ev'.fase = "pdf_processado"
                   /\ \E p \in 1..(Len(store[u].dir) + 1) :
                        store'[u] = salvar_rascunho(store[u], SeedDraft("T1", "N/A"), p)
                   /\ user_states'[u].mode = "coletando_pdfs" ]_vars

\* a PDF whose extraction failed, received while collecting
C25_Witness ==
  /\ ev.op = "documento" /\ ev.texto = "p2" /\ ev.fase = "extracao_falhou"
  /\ user_states[ev.u].mode = "coletando_pdfs"
  /\ carregar_rascunhos(store[ev.u]) = hist[ev.u].ap

\* a toggle of the member or label menu that found its entry and its draft
ToggleAplicado(u) ==
  /\ ev'.op = "callback" /\ ev'.u = u /\ ev'.ok
  /\ ev'.fase \in {"selecionar_membro", "selecionar_etiqueta"}
  /\ store'[u] # store[u] \/ ev' # ev

\* C26 (as claimed): a toggle of the id x in the menu of draft i makes x
\* selected in draft i if and only if it was not selected before, leaves the
\* other selected ids of that draft and every other draft as they were, and
\* the stored draft i carries the new selection when the event ends.
C26_ToggleFlipsOneId ==
  [][ \A u \in Users :
        ToggleAplicado(u) =>
          LET i == user_data[u].index_cartao_editando
              campo == IF ev'.fase = "selecionar_membro" THEN "membros" ELSE "etiquetas"
              x == ev'.texto
              antes == carregar_rascunhos(store[u])
              depois == carregar_rascunhos(store'[u])
          IN /\ Len(depois) = Len(antes)
             /\ x \in Range(Selecionados(depois[i + 1], campo))
                  <=> x \notin Range(Selecionados(antes[i + 1], campo))
             /\ \A y \in (Range(Membros) \cup Range(Etiquetas)) \ {x} :
                  /\ y \in Range(depois[i + 1].membros_ids) <=> y \in Range(antes[i + 1].membros_ids)
                  /\ y \in Range(depois[i + 1].etiquetas_ids) <=> y \in Range(antes[i + 1].etiquetas_ids)
             /\ \A j \in 1..Len(antes) : j # i + 1 => depois[j] = antes[j] ]_vars

\* the handler sent a message to the operator
Respondido(e) == e.fase \notin {"ignorado", "excecao", "vazio"}

\* C27 (as claimed): a text or a file received while the session has no
\* active mode is answered with a message to the operator.
C27_IdleInputAnswered ==
  [][ \A u \in Users :
        (ev'.op \in {"texto", "documento"} /\ ev'.u = u /\ user_states[u].mode = None
           /\ user_states[u].flow = None)
          => Respondido(ev') ]_vars

\* the event entered a guided flow: /pedido of a configured operator, or one
\* of the entry buttons of the edit menu
EntrouEmFluxo(e) ==
  \/ e.op = "pedido" /\ e.fase = None
  \/ e.op = "callback" /\ e.fase \in {"editar_data", "add_comentario", "add_checklist", "add_anexo"}

\* C28 (as claimed): once the operator has entered a flow B while inside
\* another flow A, the credential flow included, the text that follows is
\* interpreted by B and not by A, and what A had collected is not written to
\* the credential record.
C28_Reentrancy ==
  [][ \A u \in Users :
        (ev.u = u /\ EntrouEmFluxo(ev) /\ ev'.op = "texto" /\ ev'.u = u)
          => /\ ev'.fase \notin {"api_key", "token", "board", "excecao"}
             /\ users'[u] = users[u] ]_vars

\* ------------------------------------------------ claims on two operators
\* C29: whatever the interleaving of the events of two operators, the event
\* processed for one operator leaves the drafts, the session, the credential
\* record and the menus of the other as they were.
C29_OperatorPartitioning ==
  [][ \A a \in AllUsers, b \in AllUsers :
        (ev'.u = a /\ b # a)
          => /\ store'[b] = store[b]
             /\ user_states'[b] = user_states[b]
             /\ users'[b] = users[b]
             /\ user_data'[b] = user_data[b] ]_vars

\* the second operator's /pedido has just emptied that operator's store while
\* the first has a stored draft and is collecting
C29_Witness ==
  /\ ev.op = "pedido" /\ ev.u = "opB" /\ ev.antes # <<>>
  /\ store["opB"] = EmptyStore
  /\ store["opA"] # EmptyStore
  /\ user_states["opA"].mode = "coletando_pdfs"
  /\ user_states["opB"].mode = "coletando_pdfs"

\* C30: every stored draft that differs from the draft that was appended
\* under its file name has editado = TRUE, and editado is TRUE only in a file
\* a guided edit has written: a file is appended with the flag FALSE and the
\* flag becomes TRUE only in the event of a guided edit.
C30_EditedFlag ==
  [][ \A u \in Users :
        LET a == store[u].arq
            b == store'[u].arq
        IN /\ Len(hist'[u].ap) = Len(b)
           /\ \A k \in 1..Len(b) :
                /\ b[k] # hist'[u].ap[k] => b[k].editado
                /\ b[k].editado
                     => \/ k <= Len(a) /\ a[k].editado /\ hist'[u].ap = hist[u].ap
                        \/ ev'.op \in {"texto", "callback"} /\ hist'[u].at ]_vars

\* two stored drafts, one changed by a guided edit and flagged, the other as
\* it was appended and not flagged
C30_Witness ==
  \E u \in Users :
    /\ Len(store[u].arq) = 2 /\ hist[u].ap = <<SeedDraft("T1", "N/A"), SeedDraft("T2", "25/12/2024")>>
    /\ \E k \in 1..2 :
         /\ store[u].arq[k] # hist[u].ap[k] /\ store[u].arq[k].editado
         /\ store[u].arq[3 - k] = hist[u].ap[3 - k] /\ ~store[u].arq[3 - k].editado

FormaDDMMAAAA(cs) ==
  /\ Len(cs) = 10 /\ cs[3] = "/" /\ cs[6] = "/"
  /\ \A k \in {1, 2, 4, 5, 7, 8, 9, 10} : EhAlgarismo(cs[k])

CamposDDMMAAAA(cs) ==
  << Valor(SubSeq(cs, 1, 2)), Valor(SubSeq(cs, 4, 5)), Valor(SubSeq(cs, 7, 10)) >>

\* a day of the calendar
DataDoCalendario(c) ==
  c[3] >= 1 /\ c[2] \in 1..12 /\ c[1] >= 1 /\ c[1] <= DiasNoMes(c[2], c[3])

\* the day, month and year a text names when read loosely: three runs of
\* digits between "/" or "-", spaces at the ends left aside
CamposLidos(cs) ==
  LET ps == partes(strip(replace(cs)))
  IN IF Len(ps) = 3 /\ \A j \in 1..3 : ps[j] # <<>> /\ \A k \in DOMAIN ps[j] : EhAlgarismo(ps[j][k])
     THEN << Valor(ps[1]), Valor(ps[2]), Valor(ps[3]) >>
     ELSE <<>>

\* the date part of an ISO instant YYYY-MM-DDThh:mm:ss.sssZ, <<>> when the
\* text does not have that shape
LerData(iso) ==
  IF /\ Len(iso) = 24 /\ iso[5] = "-" /\ iso[8] = "-" /\ iso[11] = "T"
     /\ \A k \in {1, 2, 3, 4, 6, 7, 9, 10} : EhAlgarismo(iso[k])
  THEN << Valor(SubSeq(iso, 9, 10)), Valor(SubSeq(iso, 6, 7)), Valor(SubSeq(iso, 1, 4)) >>
  ELSE <<>>

HoraFixa == <<"T", "1", "6", ":", "0", "0", ":", "0", "0", ".", "0", "0", "0", "Z">>

\* C32 (as claimed): for every valid calendar date written dd/mm/yyyy,
\* parse_date_ddmmaa returns the ISO instant of that date at 16:00:00.000Z,
\* and the date part read back from the instant is the same day, month and
\* year; for a text that names no day of the calendar it returns no value.
C32_DateRoundTrip ==
  ev.op = "parse_date" =>
    /\ (FormaDDMMAAAA(ev.texto) /\ DataDoCalendario(CamposDDMMAAAA(ev.texto)))
          => /\ ev.pend # NoDate
             /\ LerData(ev.pend) = CamposDDMMAAAA(ev.texto)
             /\ SubSeq(ev.pend, 11, Len(ev.pend)) = HoraFixa
    /\ (CamposLidos(ev.texto) = <<>> \/ ~DataDoCalendario(CamposLidos(ev.texto)))
          => ev.pend = NoDate

\* ---------------------------------------------------------------------
\* extract_info_from_pdf on the text of the first page.  A text is a
\* sequence of lines; the lines are those of an order sheet.
LinhaNumero == "Nº.: 12345"
LinhaCliente == "Cliente: ACME - 00012"
LinhaRetirada == "Retirada: 25/12/2024"
LinhaObs == "Observações:"
LinhaLivre == "fragil"
LinhaTabela == "Código: Referência: Descrição: Quantidade: Preço Total:"
LinhaItem == "1 Caneca 3 UND"
LinhaVolumes == "Total Volumes: 1"
MaxLinhas == 4
Textos ==
  LET Linhas == { LinhaNumero, LinhaCliente, LinhaRetirada, LinhaObs, LinhaLivre,
                  LinhaTabela, LinhaItem, LinhaVolumes }
  IN  UNION { [1..n -> Linhas] : n \in 0..MaxLinhas }

\* the documents: the file opens or not, has a first page or not, and
\* extract_text gives a text or None
Pdfs ==
  { [abre |-> TRUE, paginas |-> 1, extrai |-> TRUE, text |-> t] : t \in Textos }
    \cup { [abre |-> FALSE, paginas |-> 0, extrai |-> FALSE, text |-> <<>>],
           [abre |-> TRUE, paginas |-> 0, extrai |-> FALSE, text |-> <<>>],
           [abre |-> TRUE, paginas |-> 1, extrai |-> FALSE, text |-> <<>>] }

\* re.search: the first line of the text that is l, 0 when there is none
search(text, l) ==
  IF \E k \in DOMAIN text : text[k] = l
  THEN CHOOSE k \in DOMAIN text :
         text[k] = l /\ \A j \in 1..(k - 1) : text[j] # l
  ELSE 0

NA == <<"N/A">>

order_number(text) == IF search(text, LinhaNumero) # 0 THEN "12345" ELSE "N/A"
client_name(text) == IF search(text, LinhaCliente) # 0 THEN "ACME" ELSE "N/A"
retirada_date(text) ==
  IF search(text, LinhaRetirada) # 0 THEN "25/12/2024" ELSE "N/A"

\* the lines after the label 'Observações:' and before the head of the item
\* table (the end of the text when there is none), without the lines that
\* the removal of 'Retirada: dd/mm/yyyy' leaves empty
cleaned_obs_lines(text) ==
  LET ini == search(text, LinhaObs)
      fim == IF search(text, LinhaTabela) # 0
             THEN search(text, LinhaTabela) - 1 ELSE Len(text)
      raw == IF ini = 0 THEN <<>> ELSE SubSeq(text, ini + 1, fim)
      F[k \in 0..Len(raw)] ==
         IF k = 0 THEN <<>>
         ELSE IF raw[k] = LinhaRetirada THEN F[k - 1]
              ELSE Append(F[k - 1], raw[k])
  IN  F[Len(raw)]

observations(text) ==
  IF cleaned_obs_lines(text) # <<>> THEN cleaned_obs_lines(text) ELSE NA

\* the item lines between the head of the table and 'Total Volumes:'
products(text) ==
  LET ini == search(text, LinhaTabela)
      depois == IF ini = 0 THEN <<>> ELSE SubSeq(text, ini + 1, Len(text))
      fim == search(depois, LinhaVolumes)
      raw == IF fim = 0 THEN <<>> ELSE SubSeq(depois, 1, fim - 1)
      F[k \in 0..Len(raw)] ==
         IF k = 0 THEN <<>>
         ELSE IF raw[k] = LinhaItem THEN Append(F[k - 1], "Caneca - 3 UND")
              ELSE F[k - 1]
  IN  F[Len(raw)]

descricao(text) ==
  LET obs == IF observations(text) # NA THEN observations(text) ELSE <<>>
  IN  IF products(text) # <<>> /\ obs # <<>>
      THEN products(text) \o <<"">> \o obs
      ELSE products(text) \o obs

Retorno(ret, text) ==
  [ret |-> ret,
   titulo |-> IF ret = "draft"
              THEN <<order_number(text), client_name(text)>> ELSE <<>>,
   descricao |-> IF ret = "draft" THEN descricao(text) ELSE <<>>,
   data_entrega |-> IF ret = "draft" THEN retirada_date(text) ELSE "",
   produtos |-> IF ret = "draft" THEN products(text) ELSE <<>>,
   observacoes |-> IF ret = "draft" THEN observations(text) ELSE <<>>,
   checklists |-> <<>>, comentarios |-> "", editado |-> FALSE]

\* the body of the try: open, pages[0], extract_text and the searches raise
\* when the file does not open, has no page, or the page gives no text
extracted_data(pdf) ==
  IF ~pdf.abre \/ pdf.paginas = 0 \/ ~pdf.extrai
  THEN Retorno("raise", <<>>)
  ELSE Retorno("draft", pdf.text)

\* (variant: no except clause)
except_nada(r) == r

\* except Exception: return None
except_Exception(r) == IF r.ret = "raise" THEN Retorno("None", <<>>) ELSE r

extract_info_from_pdf_text(pdf) == except_Exception(extracted_data(pdf))

InitExtract ==
  /\ \E pdf \in Pdfs : ev = [Ev("entrada", "opA") EXCEPT !.texto = pdf]
  /\ users = [u \in AllUsers |-> NoCred]
  /\ user_states = [u \in AllUsers |-> IdleState]
  /\ store = [u \in AllUsers |-> EmptyStore]
  /\ hist = [u \in AllUsers |-> NoHist]
  /\ calls = <<>>
  /\ report = NoReport
  /\ botoes = [u \in AllUsers |-> {}]
  /\ user_data = [u \in AllUsers |-> NoUserData]

chama_extract ==
  /\ ev.op = "entrada"
  /\ ev' = [ev EXCEPT !.op = "extract", !.dado = extract_info_from_pdf_text(ev.texto)]
  /\ UNCHANGED <<user_data, users, user_states, store, hist, calls, report, botoes>>

SpecExtract == InitExtract /\ [][chama_extract]_vars

Tem(text, l) == \E k \in DOMAIN text : text[k] = l

\* C33: for any document the extractor returns a seed draft or the failure
\* value and never raises; a document that opens and has a first page with
\* text gives a seed draft whatever labelled fields its text lacks, with
\* 'N/A' for each missing order number, client, date and observations and
\* an empty item list when there is no item table.
C33_ExtractorPermissive ==
  ev.op = "extract" =>
    LET pdf == ev.texto
        r == ev.dado
    IN  /\ r.ret \in {"draft", "None"}
        /\ (pdf.abre /\ pdf.paginas = 1 /\ pdf.extrai) =>
             /\ r.ret = "draft"
             /\ ~Tem(pdf.text, LinhaNumero) => r.titulo[1] = "N/A"
             /\ ~Tem(pdf.text, LinhaCliente) => r.titulo[2] = "N/A"
             /\ ~Tem(pdf.text, LinhaRetirada) => r.data_entrega = "N/A"
             /\ ~Tem(pdf.text, LinhaObs) => r.observacoes = <<"N/A">>
             /\ ~Tem(pdf.text, LinhaTabela) => r.produtos = <<>>

C33_Witness ==
  /\ ev.op = "extract"
  /\ ev.dado.ret = "draft"
  /\ ev.dado.titulo = <<"12345", "N/A">>
  /\ ev.dado.data_entrega = "N/A"
  /\ ev.dado.observacoes = <<"fragil">>
  /\ ev.dado.produtos = <<>>

\* C34: /addchk is usable: issued by an operator with credentials whose
\* /buscar has just shown the cards found, it puts the session in the guided
\* checklist flow at the stage awaiting the name.
C34_AddchkUsable ==
  [][ (/\ ev'.op = "addchk"
       /\ users[ev'.u] # NoCred
       /\ ev.op = "buscar" /\ ev.fase = "resultados" /\ ev.u = ev'.u)
      => /\ user_states'[ev'.u].mode = "add_checklist"
         /\ user_states'[ev'.u].checklist_stage = "aguardando_nome" ]_vars

\* no handler sets selected_card, so no session is ever in the flow of /addchk
SelectedCardNuncaDefinido ==
  \A u \in AllUsers :
    /\ user_states[u].selected_card = None
    /\ user_states[u].mode # "add_checklist"

\* the items text that completes the guided checklist of draft i
ItensDeChecklist(u) ==
  /\ ev'.op = "texto" /\ ev'.u = u /\ ev'.fase = "itens_checklist"
  /\ user_states[u].mode = "add_checklist_pdf"
  /\ user_states[u].checklist_stage = "aguardando_itens"
  /\ TemRascunho(store[u], user_states[u].index_cartao)

\* C35: guided checklist creation on draft i: the name text is kept and the
\* stage becomes awaiting-items; the items text then appends exactly one
\* checklist {name, items} at the end of the checklists of draft i, leaves the
\* earlier checklists of draft i and every other draft as they were, and
\* returns the session to idle with stage, name and index cleared.
C35_GuidedChecklistOnDraft ==
  [][ \A u \in Users :
        /\ ( /\ ev'.op = "texto" /\ ev'.u = u /\ ev'.fase = "nome_checklist"
             /\ user_states[u].mode = "add_checklist_pdf" )
           => /\ user_states'[u].checklist_name = ev'.texto
              /\ user_states'[u].checklist_stage = "aguardando_itens"
              /\ user_states'[u].index_cartao = user_states[u].index_cartao
              /\ store' = store
        /\ ItensDeChecklist(u) =>
             LET i == user_states[u].index_cartao
                 antes == carregar_rascunhos(store[u])
                 depois == carregar_rascunhos(store'[u])
             IN /\ Len(depois) = Len(antes)
                /\ depois[i + 1] =
                     [antes[i + 1] EXCEPT
                        !.checklists = Append(@, [nome |-> user_states[u].checklist_name,
                                                  itens |-> Itens(ev'.texto)]),
                        !.editado = TRUE]
                /\ \A k \in 1..Len(antes) : k # i + 1 => depois[k] = antes[k]
                /\ user_states'[u].mode = None
                /\ user_states'[u].checklist_stage = None
                /\ user_states'[u].checklist_name = None
                /\ user_states'[u].index_cartao = NoIndex ]_vars

\* the entries of a report list that name the d-th draft of the run
EntradasDe(lista, d) == {k \in DOMAIN lista : lista[k].i = d}

Falhadas == { <<c.d, c.op, c.j, c.k>> : c \in {x \in Range(calls) : ~x.ok} }

\* a commit run started by either entry point
RunDe(u) == ev'.op \in {"criar", "criar_callback"} /\ ev'.u = u

TemCartao(st, i) == st.cartoes_encontrados > 0 /\ i < st.cartoes_encontrados

\* the keyboard of mostrar_opcoes_edicao_cartao_existente for card i
mostrar_opcoes_edicao_cartao_existente(i) ==
  {Botao(d, i) : d \in {"add_anexo_existente", "ver_anexos_existente",
                        "add_comentario_existente", "mover_cartao_existente",
                        "editar_cartao_busca"}}
    \cup {Botao("voltar_busca", NoIndex)}

\* add_comentario_existente: state.update
add_comentario_existente(st, i) ==
  [st EXCEPT !.mode = "adicionando_comentario_existente", !.index_cartao_existente = i]

\* handle_callback_query for the buttons of the search results that lead to
\* the comment mode
handle_callback_query_busca(u) ==
  \E b \in botoes[u] :
    LET st == user_states[u]
        E0 == [Ev("callback", u) EXCEPT !.i = b.i, !.fase = b.d]
    IN \/ /\ b.d = "nova_busca"
          /\ ev' = E0
          /\ SemChamadas /\ UNCHANGED <<user_data, users, user_states, store, hist, botoes>>
       \/ /\ b.d = "voltar_busca"
          /\ botoes' = [botoes EXCEPT ![u] =
                IF st.cartoes_encontrados > 0
                THEN @ \cup mostrar_resultados_busca(st.cartoes_encontrados) ELSE @]
          /\ ev' = [E0 EXCEPT !.ok = (st.cartoes_encontrados > 0)]
          /\ SemChamadas /\ UNCHANGED <<user_data, users, user_states, store, hist>>
       \/ \* the details of the card are fetched (the GETs may raise)
          /\ b.d = "editar_cartao_busca"
          /\ \E ok \in BOOLEAN :
               /\ botoes' = [botoes EXCEPT ![u] =
                     IF TemCartao(st, b.i) /\ ok
                     THEN @ \cup mostrar_opcoes_edicao_cartao_existente(b.i) ELSE @]
               /\ ev' = [E0 EXCEPT !.ok = (TemCartao(st, b.i) /\ ok)]
          /\ SemChamadas /\ UNCHANGED <<user_data, users, user_states, store, hist>>
       \/ /\ b.d = "add_comentario_existente"
          /\ user_states' = [user_states EXCEPT ![u] = add_comentario_existente(st, b.i)]
          /\ ev' = E0
          /\ SemChamadas /\ UNCHANGED <<user_data, users, store, hist, botoes>>

\* the end of handle_text: the default fallback is the last statement, reached
\* by every branch that does not return
fallback(msgs) == Append(msgs, "nao_entendi")

\* handle_text in the mode adicionando_comentario_existente; the messages of
\* the event are kept in ev.pend
handle_text_existente(u) ==
  \E text \in Texts :
    LET st == user_states[u]
        i == st.index_cartao_existente
        E0 == [Ev("texto", u) EXCEPT !.i = i, !.texto = text, !.fase = "comentario_existente"]
    IN /\ st.flow = None /\ st.mode = "adicionando_comentario_existente"
       /\ user_states' = [user_states EXCEPT ![u].mode = None]
       /\ \/ \* the card is not in the results: message and return
             /\ ~TemCartao(st, i)
             /\ ev' = [E0 EXCEPT !.ok = FALSE, !.pend = <<"cartao_nao_encontrado">>]
             /\ SemChamadas /\ UNCHANGED botoes
          \/ \* add_comment raises: the except sends the error, no return
             /\ TemCartao(st, i)
             /\ ev' = [E0 EXCEPT !.ok = FALSE, !.pend = fallback(<<"erro_comentario">>)]
             /\ calls' = << Chamada(i + 1, "", "comentario", 0, 0, FALSE) >>
             /\ report' = NoReport
             /\ UNCHANGED botoes
          \/ \* the comment is added and the options of the card are shown
             \* again (or the error of their GETs), no return
             /\ TemCartao(st, i)
             /\ \E ok \in BOOLEAN :
                  /\ ev' = [E0 EXCEPT !.pend =
                        fallback(<<"comentario_adicionado",
                                   IF ok THEN "opcoes_cartao" ELSE "erro_detalhes">>)]
                  /\ botoes' = [botoes EXCEPT ![u] =
                        IF ok THEN @ \cup mostrar_opcoes_edicao_cartao_existente(i) ELSE @]
             /\ calls' = << Chamada(i + 1, "", "comentario", 0, 0, TRUE) >>
             /\ report' = NoReport
       /\ UNCHANGED <<user_data, users, store, hist>>

\* the session right after a /buscar that found cards
InitBusca ==
  /\ users = [u \in AllUsers |-> IF u \in Users THEN Cred0 ELSE NoCred]
  /\ \E n \in 1..MaxCartoes :
       /\ user_states = [u \in AllUsers |->
             IF u \in Users
             THEN [IdleState EXCEPT !.mode = "busca_cartoes", !.cartoes_encontrados = n]
             ELSE IdleState]
       /\ botoes = [u \in AllUsers |-> IF u \in Users THEN mostrar_resultados_busca(n) ELSE {}]
  /\ store = [u \in AllUsers |-> EmptyStore]
  /\ hist = [u \in AllUsers |-> NoHist]
  /\ calls = <<>>
  /\ report = NoReport
  /\ user_data = [u \in AllUsers |-> NoUserData]
  /\ ev = [Ev("buscar", "opA") EXCEPT !.fase = "resultados"]

NextBusca ==
  \/ \E u \in AllUsers : buscar_cmd(u)
  \/ \E u \in Users :
       \/ cancelar_cmd(u)
       \/ fim_cmd(u)
       \/ handle_callback_query_busca(u)
       \/ handle_text_existente(u)

SpecBusca == InitBusca /\ [][NextBusca]_vars

\* the modes in which a text is taken by a guided flow
ModosDeTexto ==
  {"editando_data_cartao", "adicionando_comentario_cartao", "add_checklist_pdf",
   "adicionando_comentario_existente"}

\* C38: the 'not understood' help prompt is sent only for text that no active
\* flow consumed: a text handled by a guided mode (for example a comment
\* accepted in adicionando_comentario_existente) does not also emit it.
C38_FallbackOnlyWhenUnconsumed ==
  [][ \A u \in Users :
        (/\ ev'.op = "texto" /\ ev'.u = u
         /\ user_states[u].flow = None
         /\ user_states[u].mode \in ModosDeTexto)
        => /\ ev'.fase # "nao_entendi"
           /\ \A k \in DOMAIN ev'.pend : ev'.pend[k] # "nao_entendi" ]_vars

\* C39: a member or label toggle button changes only a draft for which the
\* selection menu that shows the button was opened: the draft a toggle of a
\* field acts on is one for which a menu of that field was sent, whatever
\* other menu was opened later for another draft.
C39_ToggleStaysOnItsDraft ==
  [][ \A u \in Users :
        ToggleAplicado(u) =>
          [campo |-> (IF ev'.fase = "selecionar_membro" THEN "membros" ELSE "etiquetas"),
           i |-> ev'.i] \in hist[u].menus ]_vars

\* C40: no sequence of commands, button presses and texts puts the session in
\* a shape that makes the text handler fail: while a credential flow is
\* active the buffer is a key-value record, while a draft-edit mode is active
\* the draft index is a number, and no text event ends in an exception.
C40_TextHandlerNeverRaises ==
  /\ \A u \in Users :
       /\ user_states[u].flow # None => user_states[u].buffer.tipo = "dict"
       /\ user_states[u].mode \in {"editando_data_cartao", "adicionando_comentario_cartao",
                                   "add_checklist_pdf"}
            => user_states[u].index_cartao # NoIndex
  /\ ev.op = "texto" => ev.fase # "excecao"

====
